---- MODULE Spec2Model ----
(***************************************************************************)
(* SeamlessRouter: the bounded page cache (CacheManager), the prefetch     *)
(* scheduler (PrefetchManager) and the navigation history of               *)
(* IntelligentPrefetch as state machines.                                  *)
(*                                                                         *)
(* A JavaScript Map is modelled as a sequence of entries in key insertion  *)
(* order (Map.set on an existing key keeps the key's position).            *)
(* Date.now() is the variable now; it never runs backwards.                *)
(***************************************************************************)
EXTENDS Integers, Sequences, FiniteSets, Bags, TLC

\* ------------------------------------------------------------------ bounds
MaxNow == 1
MaxEntriesChoice == 2
MaxQueue == 2
MaxInflight == 3
MaxGets == 2
MaxFifoCalls == 5
MaxHistoryCalls == 4
MaxIntentEvents == 4
MaxNavigations == 3
MaxLiveCalls == 6
MaxListeners == 3
MaxHistoryNow == 3
\* the source's cap of the history (100 edges) and its recency window (30
\* days), scaled down: the history specification runs the code with a cap
\* of SmallMaxHistorySize edges and a window of SmallRecencyWindow clock units
SmallMaxHistorySize == 2
SmallRecencyWindow == 2

\* --------------------------------------------------------- values and inputs
Undefined == "<undefined>"
Null == "<null>"

Urls == {"/", "/a", "/b"}

\* html payloads, with the byte length new Blob([html]).size gives for them
Htmls == {"page-400k", "page-700k"}
BlobSize(html) == IF html = "page-400k" THEN 400000 ELSE 700000

\* header values the server may send; Undefined stands for an absent header
LastModifiedValues == {Undefined, "m1"}
EtagValues == {Undefined, "v1", "v2"}
HeadersSet == [lm : LastModifiedValues, etag : EtagValues]
NoHeaders == [lm |-> Undefined, etag |-> Undefined]

\* String.length of the header values of the model
StrLen(s) == IF s = "" THEN 0 ELSE 2

\* JSON.stringify(headers).length for a headers object with these two keys:
\* {} / {"last-modified":"m1"} / {"etag":"v1"} / both, comma separated
JsonLength(headers) ==
    LET lmPart == IF headers.lm = Undefined THEN 0 ELSE 13 + StrLen(headers.lm) + 5
        etPart == IF headers.etag = Undefined THEN 0 ELSE 4 + StrLen(headers.etag) + 5
        comma == IF headers.lm # Undefined /\ headers.etag # Undefined THEN 1 ELSE 0
    IN  2 + lmPart + etPart + comma

\* JavaScript truthiness of an optional string
Truthy(v) == v # Undefined /\ v # Null /\ v # ""

\* ------------------------------------------------------------ configuration
DefaultAlwaysCache == {"/", "/index.html", "/contacts.html", "/about.html"}
DefaultAlwaysCacheOrder == <<"/", "/index.html", "/contacts.html", "/about.html">>
DefaultMaxSizeMB == 30
DefaultMaxEntries == 100
SmallMaxSizeMB == 1

DefaultTtlHours == 24
\* the prefetch section of the default configuration
DefaultDesktopPrefetchAll == TRUE
DefaultMobilePrefetchLimit == 3
DefaultNavigationExtraPages == 2

DefaultConfig ==
    [enabled |-> TRUE, maxSizeMB |-> DefaultMaxSizeMB, maxEntries |-> DefaultMaxEntries,
     alwaysCache |-> DefaultAlwaysCache, ttlHours |-> DefaultTtlHours,
     mobilePrefetchLimit |-> DefaultMobilePrefetchLimit]

\* configurations handed to init(config) before the cache is constructed:
\* count-bound caches and size-bound caches, with and without pinned urls.
\* Configs, the configurations of the cache specifications, are the
\* count-bound caches with the default pinned list (of Urls, "/" is pinned,
\* the others are not), the size-bound caches and a disabled cache
AlwaysCacheChoices == {DefaultAlwaysCache, {}}
CountBoundConfigs ==
    {[DefaultConfig EXCEPT !.maxEntries = n, !.alwaysCache = a] :
        n \in 1..MaxEntriesChoice, a \in AlwaysCacheChoices}
SizeBoundConfigs ==
    {[DefaultConfig EXCEPT !.maxSizeMB = SmallMaxSizeMB, !.alwaysCache = a] :
        a \in AlwaysCacheChoices}
Configs ==
    {c \in CountBoundConfigs : c.alwaysCache = DefaultAlwaysCache}
        \cup SizeBoundConfigs \cup {[DefaultConfig EXCEPT !.enabled = FALSE]}

\* CacheManager: cache (the Map), stats (the aggregate counters); now is the
\* clock, cfg the cache section of the configuration.
\* PrefetchManager: queue, activeRequests, isEnabled, maxConcurrent; inflight
\* is the bag of requests whose executePrefetch call awaits its fetch.
\* storage is the 'router_cache' item of localStorage.
\* IntelligentPrefetch: navigationHistory, with navigationHistoryKind the
\* kind of JavaScript value the field holds ("array" for a list of edges,
\* whose elements navigationHistory then lists).
\* attachGlobalRoutesListenerEnhanced, for one link of the page:
\* prefetchTimeouts is the timer id the WeakMap holds for the link (0 when
\* it holds none); timers are the timers window.setTimeout has created,
\* the id of a timer being its place in the sequence.
\* setupNavigationTracking: location is window.location.pathname, lastUrl the
\* variable of that name the trackNavigation closure keeps, pendingTracks the
\* number of setTimeout(trackNavigation, 0) callbacks not yet run.
\* EventEmitter: events is the list of callbacks the Map holds for one event
\* (empty when the Map has no entry for it), each with the number of its
\* registration and what it does when called.
\* lastOp describes the last call (its name, arguments, result); run lists,
\* in order, the calls of the scenario a specification runs.
VARIABLES cache, stats, now, cfg, queue, activeRequests, inflight, isEnabled,
          maxConcurrent, lastOp, run, storage, navigationHistory,
          prefetchTimeouts, timers, navigationHistoryKind,
          location, lastUrl, pendingTracks, events

cacheVars == <<cache, stats, now, cfg, storage>>
prefetchVars == <<queue, activeRequests, inflight, isEnabled, maxConcurrent>>
vars == <<cache, stats, now, cfg, queue, activeRequests, inflight, isEnabled,
          maxConcurrent, lastOp, run, storage, navigationHistory,
          prefetchTimeouts, timers, navigationHistoryKind,
          location, lastUrl, pendingTracks, events>>
historyVars == <<navigationHistory, navigationHistoryKind>>
listenerVars == <<prefetchTimeouts, timers>>
trackingVars == <<location, lastUrl, pendingTracks>>
emitterVars == <<events>>

\* ----------------------------------------------------------- Map utilities
RECURSIVE IndexOfUrl(_, _, _)
IndexOfUrl(c, url, i) ==
    IF i > Len(c) THEN 0
    ELSE IF c[i].url = url THEN i
    ELSE IndexOfUrl(c, url, i + 1)

MapHas(c, url) == IndexOfUrl(c, url, 1) # 0
MapGet(c, url) == c[IndexOfUrl(c, url, 1)]
MapDelete(c, url) ==
    LET k == IndexOfUrl(c, url, 1)
    IN  IF k = 0 THEN c ELSE SubSeq(c, 1, k - 1) \o SubSeq(c, k + 1, Len(c))
MapSet(c, url, entry) ==
    LET k == IndexOfUrl(c, url, 1)
    IN  IF k = 0 THEN Append(c, entry) ELSE [c EXCEPT ![k] = entry]
MapKeys(c) == {c[i].url : i \in 1..Len(c)}

RECURSIVE SumSizes(_)
SumSizes(c) == IF c = <<>> THEN 0 ELSE Head(c).size + SumSizes(Tail(c))

\* ------------------------------------------------------------- CacheManager
IsPinned(config, url) == url \in config.alwaysCache

shouldUpdateEntryEtagMutant(c, url, lastModified, etag) ==
    IF ~MapHas(c, url) THEN TRUE
    ELSE LET existing == MapGet(c, url)
         IN  IF Truthy(lastModified) /\ existing.lastModified # lastModified THEN TRUE
             ELSE IF Truthy(etag) /\ existing.etag = etag THEN TRUE
             ELSE FALSE
shouldUpdateEntry(c, url, lastModified, etag) ==
    IF ~MapHas(c, url) THEN TRUE
    ELSE LET existing == MapGet(c, url)
         IN  IF Truthy(lastModified) /\ existing.lastModified # lastModified THEN TRUE
             ELSE IF Truthy(etag) /\ existing.etag # etag THEN TRUE
             ELSE FALSE

calculateSize(html, headers) == BlobSize(html) + JsonLength(headers) * 2 + 100

\* the for-loop of checkLimits: the first entry, in Map order, with the
\* smallest timestamp strictly below the running minimum, which starts at
\* Date.now(); pinned urls are skipped
RECURSIVE OldestScan(_, _, _, _, _)
OldestScanTieMutant(c, config, i, oldestUrl, oldestTimestamp) ==
    IF i > Len(c) THEN oldestUrl
    ELSE IF IsPinned(config, c[i].url) THEN OldestScan(c, config, i + 1, oldestUrl, oldestTimestamp)
    ELSE IF c[i].timestamp <= oldestTimestamp
         THEN OldestScan(c, config, i + 1, c[i].url, c[i].timestamp)
         ELSE OldestScan(c, config, i + 1, oldestUrl, oldestTimestamp)
OldestScan(c, config, i, oldestUrl, oldestTimestamp) ==
    IF i > Len(c) THEN oldestUrl
    ELSE IF IsPinned(config, c[i].url) THEN OldestScan(c, config, i + 1, oldestUrl, oldestTimestamp)
    ELSE IF c[i].timestamp < oldestTimestamp
         THEN OldestScan(c, config, i + 1, c[i].url, c[i].timestamp)
         ELSE OldestScan(c, config, i + 1, oldestUrl, oldestTimestamp)

\* checkLimits, with clock the value Date.now() returns during the call;
\* evictions logs every removal with the Map it was chosen from
RECURSIVE checkLimits(_, _, _, _, _)
checkLimits(c, st, config, clock, evictions) ==
    LET maxSizeBytes == config.maxSizeMB * 1024 * 1024
        maxEntries == config.maxEntries
    IN  IF (st.totalSize > maxSizeBytes \/ Len(c) > maxEntries) /\ Len(c) > 0
        THEN LET oldestUrl == OldestScan(c, config, 1, Null, clock)
             IN  IF Truthy(oldestUrl)
                 THEN LET entry == MapGet(c, oldestUrl)
                      IN  checkLimits(MapDelete(c, oldestUrl),
                                      [st EXCEPT !.totalSize = @ - entry.size,
                                                 !.totalEntries = @ - 1],
                                      config, clock,
                                      Append(evictions, [url |-> oldestUrl, before |-> c]))
                 ELSE [cache |-> c, stats |-> st, evictions |-> evictions]
        ELSE [cache |-> c, stats |-> st, evictions |-> evictions]

\* set(url, html, headers) called at time t; clock is Date.now() inside
\* checkLimits (t, or later when the millisecond ticks during the call)
CacheSet(c, st, config, url, html, headers, t, clock) ==
    IF ~config.enabled
    THEN [cache |-> c, stats |-> st, evictions |-> <<>>, ret |-> FALSE]
    ELSE LET lastModified == headers.lm
             etag == headers.etag
         IN  IF ~shouldUpdateEntry(c, url, lastModified, etag)
             THEN [cache |-> c, stats |-> st, evictions |-> <<>>, ret |-> FALSE]
             ELSE LET st1 == IF MapHas(c, url)
                             THEN [st EXCEPT !.totalSize = @ - MapGet(c, url).size]
                             ELSE st
                      size == calculateSize(html, headers)
                      entry == [url |-> url, html |-> html, headers |-> headers,
                                timestamp |-> t, size |-> size,
                                lastModified |-> lastModified, etag |-> etag]
                      c2 == MapSet(c, url, entry)
                      st2 == [st1 EXCEPT !.totalSize = @ + size, !.totalEntries = Len(c2)]
                      r == checkLimits(c2, st2, config, clock, <<>>)
                  IN  [cache |-> r.cache, stats |-> r.stats,
                       evictions |-> r.evictions, ret |-> TRUE]

\* hitRate, the quotient hits / (hits + misses), is kept as the pair of its
\* numerator and denominator (0 when nothing was counted)
HitRate(hits, misses) ==
    IF hits + misses > 0 THEN [num |-> hits, den |-> hits + misses]
    ELSE [num |-> 0, den |-> 1]

\* get(url): counts a hit or a miss and returns the entry (its url here) or
\* null; nothing is counted while the cache is disabled
CacheGetTouchMutant(c, st, config, url, clock) ==
    IF ~config.enabled THEN [cache |-> c, stats |-> st, ret |-> Null]
    ELSE IF MapHas(c, url)
         THEN [cache |-> MapSet(c, url, [MapGet(c, url) EXCEPT !.timestamp = clock]),
               stats |-> [st EXCEPT !.hits = @ + 1,
                                    !.hitRate = HitRate(st.hits + 1, st.misses)],
               ret |-> url]
         ELSE [cache |-> c,
               stats |-> [st EXCEPT !.misses = @ + 1,
                                    !.hitRate = HitRate(st.hits, st.misses + 1)],
               ret |-> Null]
CacheGet(c, st, config, url, clock) ==
    IF ~config.enabled THEN [cache |-> c, stats |-> st, ret |-> Null]
    ELSE IF MapHas(c, url)
         THEN [cache |-> c,
               stats |-> [st EXCEPT !.hits = @ + 1,
                                    !.hitRate = HitRate(st.hits + 1, st.misses)],
               ret |-> url]
         ELSE [cache |-> c,
               stats |-> [st EXCEPT !.misses = @ + 1,
                                    !.hitRate = HitRate(st.hits, st.misses + 1)],
               ret |-> Null]

CacheHas(c, url) == MapHas(c, url)

CacheDeleteKeepsSizeMutant(c, st, url) ==
    IF ~MapHas(c, url)
    THEN [cache |-> c, stats |-> st, ret |-> FALSE]
    ELSE [cache |-> MapDelete(c, url),
          stats |-> [st EXCEPT !.totalEntries = @ - 1],
          ret |-> TRUE]
CacheDelete(c, st, url) ==
    IF ~MapHas(c, url)
    THEN [cache |-> c, stats |-> st, ret |-> FALSE]
    ELSE LET entry == MapGet(c, url)
         IN  [cache |-> MapDelete(c, url),
              stats |-> [st EXCEPT !.totalSize = @ - entry.size, !.totalEntries = @ - 1],
              ret |-> TRUE]

EmptyStats ==
    [totalEntries |-> 0, totalSize |-> 0, hits |-> 0, misses |-> 0,
     hitRate |-> HitRate(0, 0)]

\* saveToStorage: the item written to localStorage (the write is taken to
\* succeed), as JSON.parse gives it back. The fields of an entry are strings
\* and numbers, which JSON keeps; an optional field that is undefined is
\* dropped by JSON.stringify and reads as undefined again.
saveToStorage(c, st) == [present |-> TRUE, cache |-> c, stats |-> st]

\* localStorage without the item (getItem returns null)
NoItem == [present |-> FALSE, cache |-> <<>>, stats |-> EmptyStats]

\* cleanupExpired, with clock the value of Date.now(): the entries are
\* visited in Map order from index i on; pinned urls are skipped, an entry
\* older than the TTL is deleted and its size subtracted; at the end
\* totalEntries is set to the size of the Map
TtlMs(config) == config.ttlHours * 60 * 60 * 1000

RECURSIVE cleanupExpired(_, _, _, _, _)
cleanupExpiredNoPinMutant(c, st, config, clock, i) ==
    IF i > Len(c) THEN [cache |-> c, stats |-> [st EXCEPT !.totalEntries = Len(c)]]
    ELSE IF clock - c[i].timestamp > TtlMs(config)
         THEN cleanupExpired(MapDelete(c, c[i].url),
                             [st EXCEPT !.totalSize = @ - c[i].size], config, clock, i)
         ELSE cleanupExpired(c, st, config, clock, i + 1)
cleanupExpired(c, st, config, clock, i) ==
    IF i > Len(c) THEN [cache |-> c, stats |-> [st EXCEPT !.totalEntries = Len(c)]]
    ELSE IF IsPinned(config, c[i].url) THEN cleanupExpired(c, st, config, clock, i + 1)
    ELSE IF clock - c[i].timestamp > TtlMs(config)
         THEN cleanupExpired(MapDelete(c, c[i].url),
                             [st EXCEPT !.totalSize = @ - c[i].size], config, clock, i)
         ELSE cleanupExpired(c, st, config, clock, i + 1)

\* the constructor with localStorage available: loadFromStorage takes the
\* Map and the counters from the stored item, if there is one, and runs
\* cleanupExpired
loadFromStorage(stored, config, clock) ==
    IF ~stored.present THEN [cache |-> <<>>, stats |-> EmptyStats]
    ELSE cleanupExpired(stored.cache, stored.stats, config, clock, 1)

\* ------------------------------------------------------------ PrefetchManager
Priorities == {"low", "high", "auto"}
MobileMaxConcurrent == 2
DesktopMaxConcurrent == 3

getPriorityValue(priority) ==
    CASE priority = "high" -> 0
      [] priority = "auto" -> 1
      [] priority = "low" -> 2
      [] OTHER -> 2

\* queue.findIndex(req => getPriorityValue(req.priority) < value); 0 for -1
RECURSIVE FindIndexPriorityBelow(_, _, _)
FindIndexPriorityBelow(q, value, i) ==
    IF i > Len(q) THEN 0
    ELSE IF getPriorityValue(q[i].priority) < value THEN i
    ELSE FindIndexPriorityBelow(q, value, i + 1)

\* queue.findIndex(req => req.url === url); 0 for -1
RECURSIVE FindIndexUrl(_, _, _)
FindIndexUrl(q, url, i) ==
    IF i > Len(q) THEN 0
    ELSE IF q[i].url = url THEN i
    ELSE FindIndexUrl(q, url, i + 1)

Splice(q, index) == SubSeq(q, 1, index - 1) \o SubSeq(q, index + 1, Len(q))

addToQueueLifoMutant(q, request) ==
    LET index == FindIndexPriorityBelow(q, getPriorityValue(request.priority) + 1, 1)
    IN  IF index = 0
        THEN Append(q, request)
        ELSE SubSeq(q, 1, index - 1) \o <<request>> \o SubSeq(q, index, Len(q))
addToQueue(q, request) ==
    LET index == FindIndexPriorityBelow(q, getPriorityValue(request.priority), 1)
    IN  IF index = 0
        THEN Append(q, request)
        ELSE SubSeq(q, 1, index - 1) \o <<request>> \o SubSeq(q, index, Len(q))

\* what executePrefetch keeps of a request while it awaits the fetch: the url
\* and the controller's signal; cancelledBy records the call, if any, that asked
\* to cancel the retrieval while it was running
InFlight(request) == [url |-> request.url, aborted |-> request.aborted, cancelledBy |-> "none"]

\* A PrefetchManager state P is [queue, activeRequests, inflight, started];
\* started logs the requests this call made active, each with the priorities
\* still waiting in the queue at that moment.

\* One invocation of processQueue up to its first await: the loop admits one
\* request (shift, then executePrefetch adds the url to activeRequests and
\* suspends in fetch), or ends at once when its condition is false.
processQueuePopMutant(P, maxC) ==
    IF Cardinality(P.activeRequests) < maxC /\ Len(P.queue) > 0
    THEN LET request == P.queue[Len(P.queue)]
             rest == SubSeq(P.queue, 1, Len(P.queue) - 1)
         IN  [queue |-> rest,
              activeRequests |-> P.activeRequests \cup {request.url},
              inflight |-> P.inflight (+) SetToBag({InFlight(request)}),
              started |-> Append(P.started,
                                 [url |-> request.url, priority |-> request.priority,
                                  waiting |-> {rest[i].priority : i \in 1..Len(rest)}])]
    ELSE P
processQueueNoLimitMutant(P, maxC) ==
    IF Cardinality(P.activeRequests) <= maxC /\ Len(P.queue) > 0
    THEN LET request == Head(P.queue)
             rest == Tail(P.queue)
         IN  [queue |-> rest,
              activeRequests |-> P.activeRequests \cup {request.url},
              inflight |-> P.inflight (+) SetToBag({InFlight(request)}),
              started |-> Append(P.started,
                                 [url |-> request.url, priority |-> request.priority,
                                  waiting |-> {rest[i].priority : i \in 1..Len(rest)}])]
    ELSE P
processQueue(P, maxC) ==
    IF Cardinality(P.activeRequests) < maxC /\ Len(P.queue) > 0
    THEN LET request == Head(P.queue)
             rest == Tail(P.queue)
         IN  [queue |-> rest,
              activeRequests |-> P.activeRequests \cup {request.url},
              inflight |-> P.inflight (+) SetToBag({InFlight(request)}),
              started |-> Append(P.started,
                                 [url |-> request.url, priority |-> request.priority,
                                  waiting |-> {rest[i].priority : i \in 1..Len(rest)}])]
    ELSE P

NewRequest(url, priority) == [url |-> url, priority |-> priority, aborted |-> FALSE]

\* prefetch(url, priority): the new state and the value returned
prefetchNoCacheCheckMutant(P, c, enabled, maxC, url, priority) ==
    IF ~enabled THEN [P |-> P, ret |-> FALSE]
    ELSE IF url \in P.activeRequests THEN [P |-> P, ret |-> FALSE]
    ELSE LET request == NewRequest(url, priority)
             P1 == [P EXCEPT !.queue = addToQueue(P.queue, request)]
         IN  [P |-> processQueue(P1, maxC), ret |-> TRUE]
prefetch(P, c, enabled, maxC, url, priority) ==
    IF ~enabled THEN [P |-> P, ret |-> FALSE]
    ELSE IF url \in P.activeRequests THEN [P |-> P, ret |-> FALSE]
    ELSE IF CacheHas(c, url) THEN [P |-> P, ret |-> FALSE]
    ELSE LET request == NewRequest(url, priority)
             P1 == [P EXCEPT !.queue = addToQueue(P.queue, request)]
         IN  [P |-> processQueue(P1, maxC), ret |-> TRUE]

\* cancelPrefetch(url): a queued request is aborted and spliced out; for an
\* active url the code searches the queue again for the request to abort
cancelPrefetch(P, url) ==
    LET queueIndex == FindIndexUrl(P.queue, url, 1)
    IN  IF queueIndex # 0
        THEN [P |-> [P EXCEPT !.queue = Splice(P.queue, queueIndex)], ret |-> TRUE]
        ELSE IF url \in P.activeRequests
             THEN LET k == FindIndexUrl(P.queue, url, 1)
                  IN  IF k # 0
                      THEN [P |-> [P EXCEPT !.queue[k].aborted = TRUE,
                                            !.activeRequests = @ \ {url}],
                            ret |-> TRUE]
                      ELSE [P |-> P, ret |-> FALSE]
             ELSE [P |-> P, ret |-> FALSE]

\* clearQueue(): aborts the queued requests, calls cancelPrefetch for every
\* active url (which can only splice requests out of the queue), then drops
\* the queue and empties activeRequests; no in-flight request is aborted
clearQueue(P) == [P EXCEPT !.queue = <<>>, !.activeRequests = {}]

\* the in-flight requests for the given urls that no one asked to cancel yet
\* are marked with the call that asked
MarkCancelled(B, urls, by) ==
    LET Marked(t) == IF t.url \in urls /\ t.cancelledBy = "none"
                     THEN [t EXCEPT !.cancelledBy = by] ELSE t
        Unmarked(t) == [t EXCEPT !.cancelledBy = "none"]
        Count(t) == IF t \in DOMAIN B THEN B[t] ELSE 0
    IN  [t \in {Marked(x) : x \in DOMAIN B} |->
            IF t.url \in urls /\ t.cancelledBy = by
            THEN Count(t) + Count(Unmarked(t))
            ELSE Count(t)]

\* ------------------------------------------------------ IntelligentPrefetch
maxHistorySize == SmallMaxHistorySize
RecencyWindow == SmallRecencyWindow

\* Array.prototype.sort with a comparator b.key - a.key (descending, stable):
\* an element goes behind every element whose key is not smaller
RECURSIVE InsertDesc(_, _, _)
InsertDesc(sorted, e, i) ==
    IF i > Len(sorted) THEN Append(sorted, e)
    ELSE IF sorted[i].key < e.key
         THEN SubSeq(sorted, 1, i - 1) \o <<e>> \o SubSeq(sorted, i, Len(sorted))
         ELSE InsertDesc(sorted, e, i + 1)

RECURSIVE SortDesc(_, _)
SortDesc(items, sorted) ==
    IF items = <<>> THEN sorted
    ELSE SortDesc(Tail(items), InsertDesc(sorted, Head(items), 1))

RECURSIVE FindPattern(_, _, _, _)
FindPattern(h, from, to, i) ==
    IF i > Len(h) THEN 0
    ELSE IF h[i].from = from /\ h[i].to = to THEN i
    ELSE FindPattern(h, from, to, i + 1)

PairOf(pattern) == [from |-> pattern.from, to |-> pattern.to]

\* recordNavigation(from, to) with clock the value of Date.now(): the new
\* history and the pairs the trim removed
recordNavigationNoCountMutant(h, from, to, clock) ==
    LET k == FindPattern(h, from, to, 1)
    IN  IF k # 0
        THEN [history |-> [h EXCEPT ![k].timestamp = clock], trimmed |-> {}]
        ELSE LET pushed == Append(h, [from |-> from, to |-> to, count |-> 1,
                                      timestamp |-> clock])
             IN  IF Len(pushed) > maxHistorySize
                 THEN LET keyed == [i \in 1..Len(pushed) |->
                                       [key |-> pushed[i].timestamp, item |-> pushed[i]]]
                          sorted == SortDesc(keyed, <<>>)
                          kept == [i \in 1..maxHistorySize |-> sorted[i].item]
                      IN  [history |-> kept,
                           trimmed |-> {PairOf(sorted[i].item) :
                                           i \in (maxHistorySize + 1)..Len(sorted)}]
                 ELSE [history |-> pushed, trimmed |-> {}]
recordNavigationLateTrimMutant(h, from, to, clock) ==
    LET k == FindPattern(h, from, to, 1)
    IN  IF k # 0
        THEN [history |-> [h EXCEPT ![k].count = @ + 1, ![k].timestamp = clock],
              trimmed |-> {}]
        ELSE LET pushed == Append(h, [from |-> from, to |-> to, count |-> 1,
                                      timestamp |-> clock])
             IN  IF Len(pushed) > maxHistorySize + 1
                 THEN LET keyed == [i \in 1..Len(pushed) |->
                                       [key |-> pushed[i].timestamp, item |-> pushed[i]]]
                          sorted == SortDesc(keyed, <<>>)
                          kept == [i \in 1..maxHistorySize |-> sorted[i].item]
                      IN  [history |-> kept,
                           trimmed |-> {PairOf(sorted[i].item) :
                                           i \in (maxHistorySize + 1)..Len(sorted)}]
                 ELSE [history |-> pushed, trimmed |-> {}]
recordNavigationAlwaysPushMutant(h, from, to, clock) ==
    LET pushed == Append(h, [from |-> from, to |-> to, count |-> 1, timestamp |-> clock])
    IN  IF Len(pushed) > maxHistorySize
        THEN LET keyed == [i \in 1..Len(pushed) |->
                              [key |-> pushed[i].timestamp, item |-> pushed[i]]]
                 sorted == SortDesc(keyed, <<>>)
                 kept == [i \in 1..maxHistorySize |-> sorted[i].item]
             IN  [history |-> kept,
                  trimmed |-> {PairOf(sorted[i].item) :
                                  i \in (maxHistorySize + 1)..Len(sorted)}]
        ELSE [history |-> pushed, trimmed |-> {}]
recordNavigation(h, from, to, clock) ==
    LET k == FindPattern(h, from, to, 1)
    IN  IF k # 0
        THEN [history |-> [h EXCEPT ![k].count = @ + 1, ![k].timestamp = clock],
              trimmed |-> {}]
        ELSE LET pushed == Append(h, [from |-> from, to |-> to, count |-> 1,
                                      timestamp |-> clock])
             IN  IF Len(pushed) > maxHistorySize
                 THEN LET keyed == [i \in 1..Len(pushed) |->
                                       [key |-> pushed[i].timestamp, item |-> pushed[i]]]
                          sorted == SortDesc(keyed, <<>>)
                          kept == [i \in 1..maxHistorySize |-> sorted[i].item]
                      IN  [history |-> kept,
                           trimmed |-> {PairOf(sorted[i].item) :
                                           i \in (maxHistorySize + 1)..Len(sorted)}]
                 ELSE [history |-> pushed, trimmed |-> {}]

\* totalScore = count * (1 + max(0, 1 - age / window)), kept exact as the
\* integer totalScore * window
Max(a, b) == IF a > b THEN a ELSE b
ScaledScore(pattern, clock) ==
    pattern.count * (RecencyWindow + Max(0, RecencyWindow - (clock - pattern.timestamp)))

\* getLikelyNextPages(currentUrl): clock is the value of Date.now() when the
\* call begins; the map callback reads the clock once for every pattern, and
\* from the pattern with index tick on (none when tick = 0) it reads clock + 1
getLikelyNextPagesUnsortedMutant(h, currentUrl, clock, tick) ==
    LET patternsFromCurrent == SelectSeq(h, LAMBDA pattern : pattern.from = currentUrl)
    IN  [i \in 1..Len(patternsFromCurrent) |->
            [url |-> patternsFromCurrent[i].to,
             probability |-> ScaledScore(patternsFromCurrent[i],
                                         IF tick # 0 /\ i >= tick THEN clock + 1 ELSE clock)]]
getLikelyNextPages(h, currentUrl, clock, tick) ==
    LET patternsFromCurrent == SelectSeq(h, LAMBDA pattern : pattern.from = currentUrl)
        scoredPatterns ==
            [i \in 1..Len(patternsFromCurrent) |->
                [url |-> patternsFromCurrent[i].to,
                 probability |-> ScaledScore(patternsFromCurrent[i],
                                             IF tick # 0 /\ i >= tick THEN clock + 1 ELSE clock)]]
        keyed == [i \in 1..Len(scoredPatterns) |->
                     [key |-> scoredPatterns[i].probability, item |-> scoredPatterns[i]]]
        sorted == SortDesc(keyed, <<>>)
    IN  [i \in 1..Len(sorted) |-> sorted[i].item]

\* what localStorage.getItem('router_navigation_history') gives: nothing
\* ("absent"), a text JSON.parse rejects ("unparseable"), the texts null, 5,
\* {}, "x" and [null], or the text of a list of edges ("edges")
StoredItems ==
    {"absent", "unparseable", "null", "number", "object", "string", "arrayOfNull", "edges"}
StoredEdges == <<[from |-> "/", to |-> "/a", count |-> 1, timestamp |-> 0]>>

\* loadNavigationHistory(): the value of this.navigationHistory afterwards.
\* Only a missing item and an exception of JSON.parse leave the empty list;
\* every text that parses is assigned as it is
loadNavigationHistory(stored) ==
    CASE stored \in {"absent", "unparseable"} -> [kind |-> "array", items |-> <<>>]
      [] stored = "edges" -> [kind |-> "array", items |-> StoredEdges]
      [] OTHER -> [kind |-> stored, items |-> <<>>]

\* a call of find, filter, map or forEach on this.navigationHistory with a
\* callback that reads pattern.from throws a TypeError unless the value is
\* an array of objects: null has no properties, a number, an object and a
\* string have no such method (a string has no map and no find), and the
\* callback fails on a null element
IterationThrows(kind) == kind # "array"

\* getStats() on a list of edges
RECURSIVE SumCounts(_)
SumCounts(h) == IF h = <<>> THEN 0 ELSE Head(h).count + SumCounts(Tail(h))
getStats(h) ==
    [totalPatterns |-> Len(h),
     uniqueFromPages |-> Cardinality({h[i].from : i \in 1..Len(h)}),
     uniqueToPages |-> Cardinality({h[i].to : i \in 1..Len(h)}),
     totalTransitions |-> SumCounts(h)]

\* prefetchTopLevelPages(): the Set allPages it collects, every from and to
\* of the history and then the pages of config.cache.alwaysCache
allPages(h, config) ==
    {h[i].from : i \in 1..Len(h)} \cup {h[i].to : i \in 1..Len(h)} \cup config.alwaysCache

\* ------------------------------------------------------- the last call made
NoOp == [op |-> "none", url |-> Undefined, ret |-> FALSE, evictions |-> <<>>,
         started |-> <<>>, wasActive |-> FALSE,
         wrote |-> FALSE, cancelledBy |-> "none", result |-> <<>>,
         threw |-> FALSE]

PState == [queue |-> queue, activeRequests |-> activeRequests, inflight |-> inflight,
           started |-> <<>>]

\* ------------------------------------------------------------ cache actions
InitCacheManager ==
    /\ cache = <<>>
    /\ stats = EmptyStats
    /\ now = 0
    /\ storage = NoItem

\* setupNavigationTracking(): let lastUrl = window.location.pathname
InitNavigationTracking ==
    /\ location = "/"
    /\ lastUrl = location
    /\ pendingTracks = 0

InitIntelligentPrefetch ==
    /\ navigationHistory = <<>>
    /\ navigationHistoryKind = "array"
    /\ InitNavigationTracking

\* new EventEmitter()
InitEventEmitter == events = <<>>

InitRouteListeners ==
    /\ prefetchTimeouts = 0
    /\ timers = <<>>

InitPrefetchManager ==
    /\ queue = <<>>
    /\ activeRequests = {}
    /\ inflight = EmptyBag
    /\ isEnabled = TRUE
    /\ maxConcurrent = DesktopMaxConcurrent
    /\ InitIntelligentPrefetch
    /\ InitRouteListeners
    /\ InitEventEmitter

InitCache ==
    /\ InitCacheManager
    /\ InitPrefetchManager
    /\ cfg \in Configs
    /\ lastOp = NoOp
    /\ run = <<>>

SetCall(url, html, headers, d) ==
    /\ now + d <= MaxNow
    /\ LET r == CacheSet(cache, stats, cfg, url, html, headers, now, now + d)
       IN  /\ cache' = r.cache
           /\ stats' = r.stats
           /\ storage' = IF r.ret THEN saveToStorage(r.cache, r.stats) ELSE storage
           /\ lastOp' = [NoOp EXCEPT !.op = "set", !.ret = r.ret,
                                     !.evictions = r.evictions]
    /\ now' = now + d
    /\ UNCHANGED cfg

Set(url, html, headers, d) ==
    /\ SetCall(url, html, headers, d)
    /\ UNCHANGED <<prefetchVars, run, historyVars, listenerVars, trackingVars, emitterVars>>

Delete(url) ==
    /\ LET r == CacheDelete(cache, stats, url)
       IN  /\ cache' = r.cache
           /\ stats' = r.stats
           /\ storage' = IF r.ret THEN saveToStorage(r.cache, r.stats) ELSE storage
           /\ lastOp' = [NoOp EXCEPT !.op = "delete", !.ret = r.ret]
    /\ UNCHANGED <<now, cfg, prefetchVars, run, historyVars, listenerVars, trackingVars, emitterVars>>

Clear ==
    /\ cache' = <<>>
    /\ stats' = EmptyStats
    /\ storage' = NoItem
    /\ lastOp' = [NoOp EXCEPT !.op = "clear"]
    /\ UNCHANGED <<now, cfg, prefetchVars, run, historyVars, listenerVars, trackingVars, emitterVars>>

Tick ==
    /\ now < MaxNow
    /\ now' = now + 1
    /\ lastOp' = [NoOp EXCEPT !.op = "tick"]
    /\ UNCHANGED <<cache, stats, cfg, storage, prefetchVars, run, historyVars, listenerVars, trackingVars, emitterVars>>

\* every CacheManager call, over the eviction-relevant inputs: all urls, both
\* page sizes, and validators that differ so that a repeated set replaces
EvictionHeaders == {h \in HeadersSet : h.lm = Undefined /\ h.etag # Undefined}

NextCache ==
    \/ \E url \in Urls, html \in Htmls, headers \in EvictionHeaders, d \in {0, 1} :
          Set(url, html, headers, d)
    \/ \E url \in Urls : Delete(url)
    \/ Clear
    \/ Tick

SpecCache == InitCache /\ [][NextCache]_vars

\* every CacheManager call, over all validator combinations on two urls
ValidatorUrls == {"/", "/a"}

NextValidators ==
    \/ \E url \in ValidatorUrls, html \in Htmls, headers \in HeadersSet, d \in {0, 1} :
          Set(url, html, headers, d)
    \/ \E url \in ValidatorUrls : Delete(url)
    \/ Clear
    \/ Tick

SpecValidators == InitCache /\ [][NextValidators]_vars

\* an insertion run: distinct non-pinned urls set one after the other into
\* the empty cache of a count-bound configuration, at most maxEntries + 1
InitInsertRun ==
    /\ InitCacheManager
    /\ InitPrefetchManager
    /\ cfg \in CountBoundConfigs
    /\ lastOp = NoOp
    /\ run = <<>>

InsertNext(url, html, headers, d) ==
    /\ Len(run) <= cfg.maxEntries
    /\ ~IsPinned(cfg, url)
    /\ \A i \in 1..Len(run) : run[i] # url
    /\ SetCall(url, html, headers, d)
    /\ run' = Append(run, url)
    /\ UNCHANGED <<prefetchVars, historyVars, listenerVars, trackingVars, emitterVars>>

RunTick ==
    /\ now < MaxNow
    /\ now' = now + 1
    /\ UNCHANGED <<cache, stats, cfg, storage, prefetchVars, run, lastOp, historyVars, listenerVars, trackingVars, emitterVars>>

NextInsertRun ==
    \/ \E url \in Urls, html \in Htmls, headers \in EvictionHeaders, d \in {0, 1} :
          InsertNext(url, html, headers, d)
    \/ RunTick

SpecInsertRun == InitInsertRun /\ [][NextInsertRun]_vars

\* count-bound caches with the default pinned list, and pages of one size
ReloadConfigs == {c \in CountBoundConfigs : c.alwaysCache = DefaultAlwaysCache}
ReloadHtmls == {"page-400k"}

\* a call of get(url)
GetCall(url) ==
    /\ stats.hits + stats.misses < MaxGets
    /\ LET r == CacheGet(cache, stats, cfg, url, now)
       IN  /\ cache' = r.cache
           /\ stats' = r.stats
           /\ lastOp' = [NoOp EXCEPT !.op = "get", !.url = r.ret]
    /\ UNCHANGED <<now, cfg, storage>>

\* the order of last use: url becomes the most recently used one
Touch(order, url) == SelectSeq(order, LAMBDA u : u # url) \o <<url>>

\* set, get and delete with run kept as the urls in the order of their last
\* use, a written set and a get that hits being uses
AccessSet(url, html, headers, d) ==
    /\ SetCall(url, html, headers, d)
    /\ run' = IF lastOp'.ret THEN Touch(run, url) ELSE run
    /\ UNCHANGED <<prefetchVars, historyVars, listenerVars, trackingVars, emitterVars>>

AccessGet(url) ==
    /\ GetCall(url)
    /\ run' = IF lastOp'.url # Null THEN Touch(run, url) ELSE run
    /\ UNCHANGED <<prefetchVars, historyVars, listenerVars, trackingVars, emitterVars>>

AccessDelete(url) ==
    /\ LET r == CacheDelete(cache, stats, url)
       IN  /\ cache' = r.cache
           /\ stats' = r.stats
           /\ storage' = IF r.ret THEN saveToStorage(r.cache, r.stats) ELSE storage
           /\ lastOp' = [NoOp EXCEPT !.op = "delete", !.ret = r.ret]
    /\ run' = SelectSeq(run, LAMBDA u : u # url)
    /\ UNCHANGED <<now, cfg, prefetchVars, historyVars, listenerVars, trackingVars, emitterVars>>

AccessConfigs == ReloadConfigs \cup {[DefaultConfig EXCEPT !.enabled = FALSE]}
AccessHeaders == {h \in EvictionHeaders : h.etag = "v1"}

InitAccess ==
    /\ InitCacheManager
    /\ InitPrefetchManager
    /\ cfg \in AccessConfigs
    /\ lastOp = NoOp
    /\ run = <<>>

NextAccess ==
    \/ \E url \in Urls, html \in ReloadHtmls, headers \in AccessHeaders, d \in {0, 1} :
          AccessSet(url, html, headers, d)
    \/ \E url \in Urls : AccessGet(url)
    \/ \E url \in Urls : AccessDelete(url)
    \/ Tick

SpecAccess == InitAccess /\ [][NextAccess]_vars

\* the page is loaded again and a new CacheManager is constructed
Reload ==
    /\ LET r == loadFromStorage(storage, cfg, now)
       IN  /\ cache' = r.cache
           /\ stats' = r.stats
    /\ lastOp' = [NoOp EXCEPT !.op = "reload"]
    /\ UNCHANGED <<now, cfg, storage, prefetchVars, run, historyVars, listenerVars, trackingVars, emitterVars>>

\* the browser stays closed, or idle, for the length of the TTL
Sleep ==
    /\ now <= MaxNow
    /\ now' = now + TtlMs(cfg)
    /\ lastOp' = [NoOp EXCEPT !.op = "sleep"]
    /\ UNCHANGED <<cache, stats, cfg, storage, prefetchVars, run, historyVars, listenerVars, trackingVars, emitterVars>>

InitReload ==
    /\ InitCacheManager
    /\ InitPrefetchManager
    /\ cfg \in ReloadConfigs
    /\ lastOp = NoOp
    /\ run = <<>>

NextReload ==
    \/ \E url \in Urls, html \in ReloadHtmls, headers \in EvictionHeaders, d \in {0, 1} :
          Set(url, html, headers, d)
    \/ \E url \in Urls : Delete(url)
    \/ Clear
    \/ Tick
    \/ Sleep
    \/ Reload

SpecReload == InitReload /\ [][NextReload]_vars

\* the cache constructed after init(config) was given a maxEntries that is
\* not positive
InvalidConfigs ==
    {[DefaultConfig EXCEPT !.maxEntries = 0], [DefaultConfig EXCEPT !.maxEntries = 0 - 1]}

InitInvalid ==
    /\ InitCacheManager
    /\ InitPrefetchManager
    /\ cfg \in InvalidConfigs
    /\ lastOp = NoOp
    /\ run = <<>>

SpecInvalid == InitInvalid /\ [][NextReload]_vars

\* a session in which entries are written and read while time passes
ExpiryGet(url) ==
    /\ GetCall(url)
    /\ UNCHANGED <<prefetchVars, run, historyVars, listenerVars, trackingVars, emitterVars>>

NextExpiry ==
    \/ \E url \in Urls, html \in ReloadHtmls, headers \in AccessHeaders, d \in {0, 1} :
          Set(url, html, headers, d)
    \/ \E url \in Urls : ExpiryGet(url)
    \/ Tick
    \/ Sleep
    \/ Reload

SpecExpiry == InitReload /\ [][NextExpiry]_vars

\* ----------------------------------------------------------- history actions
HistoryPages == {"/", "/a"}
HistoryPairs ==
    {[from |-> "/", to |-> "/a"], [from |-> "/", to |-> "/b"],
     [from |-> "/", to |-> "/c"], [from |-> "/a", to |-> "/"]}

\* a navigation from one page to another is tracked; run lists the calls
\* of recordNavigation with the pairs each of them trimmed
RecordNavigation(from, to) ==
    /\ Len(run) < MaxHistoryCalls
    /\ LET r == recordNavigation(navigationHistory, from, to, now)
       IN  /\ navigationHistory' = r.history
           /\ run' = Append(run, [from |-> from, to |-> to, trimmed |-> r.trimmed])
    /\ lastOp' = [NoOp EXCEPT !.op = "recordNavigation"]
    /\ UNCHANGED <<cacheVars, prefetchVars, listenerVars, trackingVars, navigationHistoryKind, emitterVars>>

\* getLikelyNextPages(currentUrl), the clock ticking once during the call
\* when tick is not 0
Predict(currentUrl, tick) ==
    /\ tick <= Len(SelectSeq(navigationHistory, LAMBDA pattern : pattern.from = currentUrl))
    /\ now + (IF tick # 0 THEN 1 ELSE 0) <= MaxHistoryNow
    /\ lastOp' = [NoOp EXCEPT !.op = "getLikelyNextPages", !.url = currentUrl,
                              !.result = getLikelyNextPages(navigationHistory, currentUrl,
                                                            now, tick)]
    /\ now' = now + (IF tick # 0 THEN 1 ELSE 0)
    /\ UNCHANGED <<cache, stats, cfg, storage, prefetchVars, run, historyVars, listenerVars, trackingVars, emitterVars>>

\* clearHistory()
ClearHistory ==
    /\ navigationHistory' = <<>>
    /\ navigationHistoryKind' = "array"
    /\ run' = <<>>
    /\ lastOp' = [NoOp EXCEPT !.op = "clearHistory"]
    /\ UNCHANGED <<cacheVars, prefetchVars, listenerVars, trackingVars, emitterVars>>

HistoryTick ==
    /\ now < MaxHistoryNow
    /\ now' = now + 1
    /\ lastOp' = [NoOp EXCEPT !.op = "tick"]
    /\ UNCHANGED <<cache, stats, cfg, storage, prefetchVars, run, historyVars, listenerVars, trackingVars, emitterVars>>

InitHistory ==
    /\ InitCacheManager
    /\ InitPrefetchManager
    /\ cfg = DefaultConfig
    /\ lastOp = NoOp
    /\ run = <<>>

NextHistory ==
    \/ \E pair \in HistoryPairs : RecordNavigation(pair.from, pair.to)
    \/ \E currentUrl \in HistoryPages, tick \in 0..MaxHistoryCalls : Predict(currentUrl, tick)
    \/ ClearHistory
    \/ HistoryTick

SpecHistory == InitHistory /\ [][NextHistory]_vars

\* the tracker constructed over whatever localStorage holds, then used
Throw(op) ==
    /\ lastOp' = [NoOp EXCEPT !.op = op, !.threw = TRUE]
    /\ UNCHANGED <<cacheVars, prefetchVars, run, historyVars, listenerVars, trackingVars, emitterVars>>

CallRecordNavigation(from, to) ==
    IF IterationThrows(navigationHistoryKind)
    THEN Throw("recordNavigation")
    ELSE RecordNavigation(from, to)

CallGetLikelyNextPages(currentUrl) ==
    IF IterationThrows(navigationHistoryKind)
    THEN Throw("getLikelyNextPages")
    ELSE Predict(currentUrl, 0)

CallGetStats ==
    IF IterationThrows(navigationHistoryKind)
    THEN Throw("getStats")
    ELSE /\ lastOp' = [NoOp EXCEPT !.op = "getStats",
                                   !.result = <<getStats(navigationHistory)>>]
         /\ UNCHANGED <<cacheVars, prefetchVars, run, historyVars, listenerVars, trackingVars, emitterVars>>

InitLoad ==
    /\ InitCacheManager
    /\ cfg = DefaultConfig
    /\ queue = <<>>
    /\ activeRequests = {}
    /\ inflight = EmptyBag
    /\ isEnabled = TRUE
    /\ maxConcurrent = DesktopMaxConcurrent
    /\ InitRouteListeners
    /\ InitEventEmitter
    /\ InitNavigationTracking
    /\ \E stored \in StoredItems :
          /\ navigationHistory = loadNavigationHistory(stored).items
          /\ navigationHistoryKind = loadNavigationHistory(stored).kind
          /\ lastOp = [NoOp EXCEPT !.op = "loadNavigationHistory", !.url = stored]
    /\ run = <<>>

NextLoad ==
    \/ \E pair \in HistoryPairs : CallRecordNavigation(pair.from, pair.to)
    \/ \E currentUrl \in HistoryPages : CallGetLikelyNextPages(currentUrl)
    \/ CallGetStats
    \/ ClearHistory
    \/ HistoryTick

SpecLoad == InitLoad /\ [][NextLoad]_vars

\* ---------------------------------------------------------- prefetch actions
PrefetchUrls == {"/", "/a", "/b"}

\* the priorities the router's own callers pass to prefetch, 'low' on hover
\* and 'auto' on touch and for pages taken from the navigation history (the
\* scheduler alone, below, is run over all three)
PrefetchPriorities == {"low", "auto"}

\* what a successful retrieval delivers
PrefetchHtml == "page-400k"
PrefetchHeaders == NoHeaders

InitPrefetch ==
    /\ InitCacheManager
    /\ cfg = DefaultConfig
    /\ queue = <<>>
    /\ activeRequests = {}
    /\ inflight = EmptyBag
    /\ isEnabled \in BOOLEAN
    /\ maxConcurrent \in {MobileMaxConcurrent, DesktopMaxConcurrent}
    /\ InitIntelligentPrefetch
    /\ InitRouteListeners
    /\ InitEventEmitter
    /\ lastOp = NoOp
    /\ run = <<>>

\* a call of prefetch(url, priority)
Prefetch(url, priority) ==
    /\ Len(queue) < MaxQueue
    /\ BagCardinality(inflight) < MaxInflight
    /\ LET r == prefetch(PState, cache, isEnabled, maxConcurrent, url, priority)
       IN  /\ queue' = r.P.queue
           /\ activeRequests' = r.P.activeRequests
           /\ inflight' = r.P.inflight
           /\ lastOp' = [NoOp EXCEPT !.op = "prefetch", !.url = url, !.ret = r.ret,
                                     !.started = r.P.started]
    /\ UNCHANGED <<cacheVars, isEnabled, maxConcurrent, run, historyVars, listenerVars, trackingVars, emitterVars>>

\* the fetch of an in-flight request settles and executePrefetch runs to its
\* end: on "ok" the page is written with cacheManager.set; "fail" is a
\* network error or a non-OK status; an aborted signal gives "abort". The
\* finally block deletes the url from activeRequests and calls processQueue;
\* then the processQueue invocation that awaited this request resumes its loop.
InFlightRequests(urls) ==
    [url : urls, aborted : BOOLEAN, cancelledBy : {"none", "cancelPrefetch", "clearQueue"}]

Outcomes(request) == IF request.aborted THEN {"abort"} ELSE {"ok", "fail"}

SettleKeepsFailedActiveMutant(request, outcome) ==
    /\ BagIn(request, inflight)
    /\ outcome \in Outcomes(request)
    /\ LET r == IF outcome = "ok"
                THEN CacheSet(cache, stats, cfg, request.url, PrefetchHtml,
                              PrefetchHeaders, now, now)
                ELSE [cache |-> cache, stats |-> stats, evictions |-> <<>>, ret |-> FALSE]
           P1 == [PState EXCEPT !.inflight = @ (-) SetToBag({request}),
                                !.activeRequests = IF outcome = "fail" THEN @
                                                   ELSE @ \ {request.url}]
           P2 == processQueue(P1, maxConcurrent)
           P3 == processQueue(P2, maxConcurrent)
       IN  /\ cache' = r.cache
           /\ stats' = r.stats
           /\ storage' = IF r.ret THEN saveToStorage(r.cache, r.stats) ELSE storage
           /\ queue' = P3.queue
           /\ activeRequests' = P3.activeRequests
           /\ inflight' = P3.inflight
           /\ lastOp' = [NoOp EXCEPT !.op = "settle", !.url = request.url,
                                     !.evictions = r.evictions, !.started = P3.started,
                                     !.wrote = r.ret,
                                     !.cancelledBy = request.cancelledBy]
    /\ UNCHANGED <<now, cfg, isEnabled, maxConcurrent, run, historyVars, listenerVars, trackingVars, emitterVars>>

Settle(request, outcome) ==
    /\ BagIn(request, inflight)
    /\ outcome \in Outcomes(request)
    /\ LET r == IF outcome = "ok"
                THEN CacheSet(cache, stats, cfg, request.url, PrefetchHtml,
                              PrefetchHeaders, now, now)
                ELSE [cache |-> cache, stats |-> stats, evictions |-> <<>>, ret |-> FALSE]
           P1 == [PState EXCEPT !.inflight = @ (-) SetToBag({request}),
                                !.activeRequests = @ \ {request.url}]
           P2 == processQueue(P1, maxConcurrent)
           P3 == processQueue(P2, maxConcurrent)
       IN  /\ cache' = r.cache
           /\ stats' = r.stats
           /\ storage' = IF r.ret THEN saveToStorage(r.cache, r.stats) ELSE storage
           /\ queue' = P3.queue
           /\ activeRequests' = P3.activeRequests
           /\ inflight' = P3.inflight
           /\ lastOp' = [NoOp EXCEPT !.op = "settle", !.url = request.url,
                                     !.evictions = r.evictions, !.started = P3.started,
                                     !.wrote = r.ret,
                                     !.cancelledBy = request.cancelledBy]
    /\ UNCHANGED <<now, cfg, isEnabled, maxConcurrent, run, historyVars, listenerVars, trackingVars, emitterVars>>

\* a call of cancelPrefetch(url)
CancelPrefetch(url) ==
    /\ LET r == cancelPrefetch(PState, url)
       IN  /\ queue' = r.P.queue
           /\ activeRequests' = r.P.activeRequests
           /\ inflight' = IF url \in activeRequests
                          THEN MarkCancelled(r.P.inflight, {url}, "cancelPrefetch")
                          ELSE r.P.inflight
           /\ lastOp' = [NoOp EXCEPT !.op = "cancelPrefetch", !.url = url, !.ret = r.ret,
                                     !.wasActive = (url \in activeRequests)]
    /\ UNCHANGED <<cacheVars, isEnabled, maxConcurrent, run, historyVars, listenerVars, trackingVars, emitterVars>>

\* a call of clearQueue()
ClearQueue ==
    /\ LET P1 == clearQueue(PState)
       IN  /\ queue' = P1.queue
           /\ activeRequests' = P1.activeRequests
           /\ inflight' = P1.inflight
    /\ lastOp' = [NoOp EXCEPT !.op = "clearQueue"]
    /\ UNCHANGED <<cacheVars, isEnabled, maxConcurrent, run, historyVars, listenerVars, trackingVars, emitterVars>>

\* a call of clearQueue(), with the retrievals that run at the moment of
\* the call marked as such
ClearQueueTracked ==
    /\ LET P1 == clearQueue(PState)
       IN  /\ queue' = P1.queue
           /\ activeRequests' = P1.activeRequests
           /\ inflight' = MarkCancelled(P1.inflight, {t.url : t \in DOMAIN P1.inflight},
                                        "clearQueue")
    /\ lastOp' = [NoOp EXCEPT !.op = "clearQueue"]
    /\ UNCHANGED <<cacheVars, isEnabled, maxConcurrent, run, historyVars, listenerVars, trackingVars, emitterVars>>

\* a call of setEnabled(enabled)
SetEnabledKeepsQueueMutant(enabled) ==
    /\ isEnabled' = enabled
    /\ lastOp' = [NoOp EXCEPT !.op = "setEnabled", !.ret = enabled]
    /\ UNCHANGED <<cacheVars, queue, activeRequests, inflight, maxConcurrent, run,
                   historyVars, listenerVars, trackingVars, emitterVars>>
SetEnabled(enabled) ==
    /\ isEnabled' = enabled
    /\ LET P1 == IF enabled THEN PState ELSE clearQueue(PState)
       IN  /\ queue' = P1.queue
           /\ activeRequests' = P1.activeRequests
           /\ inflight' = P1.inflight
    /\ lastOp' = [NoOp EXCEPT !.op = "setEnabled", !.ret = enabled]
    /\ UNCHANGED <<cacheVars, maxConcurrent, run, historyVars, listenerVars, trackingVars, emitterVars>>

NextPrefetch ==
    \/ \E url \in PrefetchUrls, priority \in PrefetchPriorities : Prefetch(url, priority)
    \/ \E request \in InFlightRequests(PrefetchUrls), outcome \in {"ok", "fail", "abort"} :
          Settle(request, outcome)
    \/ \E url \in PrefetchUrls : CancelPrefetch(url)
    \/ ClearQueue
    \/ \E enabled \in BOOLEAN : SetEnabled(enabled)

SpecPrefetch == InitPrefetch /\ [][NextPrefetch]_vars

\* the scheduler alone: prefetch calls and settlements over four urls
ScheduleUrls == {"/", "/a", "/b", "/c"}

InitSchedule ==
    /\ InitCacheManager
    /\ cfg = DefaultConfig
    /\ queue = <<>>
    /\ activeRequests = {}
    /\ inflight = EmptyBag
    /\ isEnabled = TRUE
    /\ maxConcurrent \in {MobileMaxConcurrent, DesktopMaxConcurrent}
    /\ InitIntelligentPrefetch
    /\ InitRouteListeners
    /\ InitEventEmitter
    /\ lastOp = NoOp
    /\ run = <<>>

NextSchedule ==
    \/ \E url \in ScheduleUrls, priority \in Priorities : Prefetch(url, priority)
    \/ \E request \in InFlightRequests(ScheduleUrls), outcome \in {"ok", "fail", "abort"} :
          Settle(request, outcome)

SpecSchedule == InitSchedule /\ [][NextSchedule]_vars

\* the scheduler with every url requested at most once: the calls take
\* the urls of FifoOrder one after the other, each with any priority, and
\* run lists the calls made
FifoOrder == <<"/", "/a", "/b", "/c", "/d", "/e">>
FifoUrls == {FifoOrder[i] : i \in 1..Len(FifoOrder)}

PrefetchNext(priority) ==
    /\ Len(run) < MaxFifoCalls
    /\ Len(run) < Len(FifoOrder)
    /\ LET url == FifoOrder[Len(run) + 1]
           r == prefetch(PState, cache, isEnabled, maxConcurrent, url, priority)
       IN  /\ queue' = r.P.queue
           /\ activeRequests' = r.P.activeRequests
           /\ inflight' = r.P.inflight
           /\ lastOp' = [NoOp EXCEPT !.op = "prefetch", !.url = url, !.ret = r.ret,
                                     !.started = r.P.started]
           /\ run' = Append(run, [url |-> url, priority |-> priority])
    /\ UNCHANGED <<cacheVars, isEnabled, maxConcurrent, historyVars, listenerVars, trackingVars, emitterVars>>

\* the retrievals of this scenario end without a page (a network error, a
\* non-OK status or an abort): the order of starts does not depend on what
\* the cache holds, every url being requested once
FifoOutcomes == {"fail", "abort"}

NextFifo ==
    \/ \E priority \in Priorities : PrefetchNext(priority)
    \/ \E request \in InFlightRequests(FifoUrls), outcome \in FifoOutcomes :
          Settle(request, outcome)

SpecFifo == InitSchedule /\ [][NextFifo]_vars

\* finitely many prefetch calls, for any urls and so also repeated ones, with
\* cancelPrefetch and clearQueue calls in between; every retrieval that was
\* started settles at some time. run counts the prefetch calls made
LiveUrls == {"/a", "/b", "/c"}

PrefetchCall(url, priority) ==
    /\ Len(run) < MaxLiveCalls
    /\ LET r == prefetch(PState, cache, isEnabled, maxConcurrent, url, priority)
       IN  /\ queue' = r.P.queue
           /\ activeRequests' = r.P.activeRequests
           /\ inflight' = r.P.inflight
           /\ lastOp' = [NoOp EXCEPT !.op = "prefetch", !.url = url, !.ret = r.ret,
                                     !.started = r.P.started]
           /\ run' = Append(run, "prefetch")
    /\ UNCHANGED <<cacheVars, isEnabled, maxConcurrent, historyVars, listenerVars, trackingVars, emitterVars>>

\* the retrievals of this scenario fail, so that no page is cached and every
\* prefetch call is accepted
SettleSome ==
    \E request \in InFlightRequests(LiveUrls) : Settle(request, "fail")

NextLive ==
    \/ \E url \in LiveUrls, priority \in PrefetchPriorities : PrefetchCall(url, priority)
    \/ SettleSome
    \/ \E url \in LiveUrls : CancelPrefetch(url)
    \/ ClearQueue

SpecLive == InitSchedule /\ [][NextLive]_vars /\ WF_vars(SettleSome)

\* prefetch calls, settlements and clearQueue over two urls
ClearUrls == {"/", "/a"}

NextClear ==
    \/ \E url \in ClearUrls, priority \in PrefetchPriorities : Prefetch(url, priority)
    \/ \E request \in InFlightRequests(ClearUrls), outcome \in {"ok", "fail", "abort"} :
          Settle(request, outcome)
    \/ ClearQueueTracked

SpecClear == InitSchedule /\ [][NextClear]_vars

\* ------------------------------------------------- navigation tracker actions
\* pagesToPrefetch.forEach(page => prefetchManager.prefetch(page, priority)):
\* the state after the calls
RECURSIVE PrefetchEach(_, _, _, _, _, _)
PrefetchEach(P, c, enabled, maxC, urls, priority) ==
    IF urls = <<>> THEN P
    ELSE PrefetchEach(prefetch(P, c, enabled, maxC, Head(urls), priority).P,
                      c, enabled, maxC, Tail(urls), priority)

Min(a, b) == IF a < b THEN a ELSE b

\* Array.prototype.slice(0, end): a negative end counts from the end of the list
slice(list, end) ==
    LET k == IF end < 0 THEN Max(Len(list) + end, 0) ELSE Min(end, Len(list))
    IN  SubSeq(list, 1, k)
isMobileDevice == maxConcurrent = MobileMaxConcurrent

\* prefetchBasedOnPatterns(currentUrl) on history h: the urls it prefetches
PagesToPrefetch(h, currentUrl) ==
    LET likelyNextPages == getLikelyNextPages(h, currentUrl, now, 0)
        prefetchLimit == IF isMobileDevice THEN cfg.mobilePrefetchLimit
                         ELSE IF DefaultDesktopPrefetchAll THEN Len(likelyNextPages)
                         ELSE cfg.mobilePrefetchLimit
        pagesToPrefetch == slice(likelyNextPages, prefetchLimit)
    IN  [i \in 1..Len(pagesToPrefetch) |-> pagesToPrefetch[i].url]

\* trackNavigation after a navigation from previousUrl to currentUrl: the
\* transition is recorded, then the pages predicted for currentUrl are
\* prefetched with the priority the code passes; lastOp.result lists the
\* prefetch calls made
PredictionPriority == "auto"
TrackNavigation(previousUrl, currentUrl) ==
    /\ Len(run) < MaxHistoryCalls
    /\ Len(queue) < MaxQueue
    /\ BagCardinality(inflight) < MaxInflight
    /\ LET r == recordNavigation(navigationHistory, previousUrl, currentUrl, now)
           pagesToPrefetch == PagesToPrefetch(r.history, currentUrl)
           P == PrefetchEach(PState, cache, isEnabled, maxConcurrent, pagesToPrefetch,
                             PredictionPriority)
       IN  /\ navigationHistory' = r.history
           /\ run' = Append(run, [from |-> previousUrl, to |-> currentUrl, trimmed |-> r.trimmed])
           /\ queue' = P.queue
           /\ activeRequests' = P.activeRequests
           /\ inflight' = P.inflight
           /\ lastOp' = [NoOp EXCEPT !.op = "trackNavigation", !.url = currentUrl,
                                     !.started = P.started,
                                     !.result = [i \in 1..Len(pagesToPrefetch) |->
                                                    [url |-> pagesToPrefetch[i],
                                                     priority |-> PredictionPriority]]]
    /\ UNCHANGED <<cacheVars, isEnabled, maxConcurrent, listenerVars, trackingVars,
                   navigationHistoryKind, emitterVars>>

\* prefetchNavigationExtraPages(container): urls are the same-origin hrefs
\* of the pagination links of the container, in document order
ExtraPagePriority == "auto"
PaginationLinks == {<<"/p2">>, <<"/p2", "/p3", "/p4">>}
PrefetchNavigationExtraPages(urls) ==
    /\ Len(queue) < MaxQueue
    /\ BagCardinality(inflight) < MaxInflight
    /\ LET pagesToPrefetch == SubSeq(urls, 1, Min(DefaultNavigationExtraPages, Len(urls)))
           P == PrefetchEach(PState, cache, isEnabled, maxConcurrent, pagesToPrefetch,
                             ExtraPagePriority)
       IN  /\ queue' = P.queue
           /\ activeRequests' = P.activeRequests
           /\ inflight' = P.inflight
           /\ lastOp' = [NoOp EXCEPT !.op = "prefetchNavigationExtraPages",
                                     !.started = P.started,
                                     !.result = [i \in 1..Len(pagesToPrefetch) |->
                                                    [url |-> pagesToPrefetch[i],
                                                     priority |-> ExtraPagePriority]]]
    /\ UNCHANGED <<cacheVars, isEnabled, maxConcurrent, run, historyVars,
                   listenerVars, trackingVars, emitterVars>>

\* navigations are tracked while links are hovered ('low') and touched
\* ('auto') and retrievals fail
TrackerUrls == {"/", "/a", "/b", "/c", "/p2", "/p3"}
HoveredUrls == {"/b"}

NextTracker ==
    \/ \E pair \in HistoryPairs : TrackNavigation(pair.from, pair.to)
    \/ \E urls \in PaginationLinks : PrefetchNavigationExtraPages(urls)
    \/ \E url \in HoveredUrls, priority \in PrefetchPriorities : Prefetch(url, priority)
    \/ \E request \in InFlightRequests(TrackerUrls) : Settle(request, "fail")

SpecTracker == InitSchedule /\ [][NextTracker]_vars

\* ------------------------------------------------------------- warm start
\* Array.from(allPages) of prefetchTopLevelPages: the urls in the order in
\* which the Set received them
RECURSIVE Dedup(_, _)
Dedup(urls, seen) ==
    IF urls = <<>> THEN seen
    ELSE Dedup(Tail(urls),
               IF \E i \in 1..Len(seen) : seen[i] = Head(urls) THEN seen
               ELSE Append(seen, Head(urls)))
RECURSIVE FromTo(_)
FromTo(h) == IF h = <<>> THEN <<>> ELSE <<Head(h).from, Head(h).to>> \o FromTo(Tail(h))
allPagesList(h, config) ==
    Dedup(FromTo(h) \o SelectSeq(DefaultAlwaysCacheOrder, LAMBDA u : u \in config.alwaysCache),
          <<>>)

\* prefetchTopLevelPages(): the pages it passes to prefetch, in order, from
\* history h on a mobile or a desktop device
prefetchTopLevelPagesAllMutant(h, config, mobile) ==
    allPagesList(h, config)
prefetchTopLevelPages(h, config, mobile) ==
    LET pages == allPagesList(h, config)
        prefetchLimit == IF mobile THEN Min(config.mobilePrefetchLimit, Len(pages))
                         ELSE IF DefaultDesktopPrefetchAll THEN Len(pages)
                         ELSE config.mobilePrefetchLimit
    IN  IF pages = <<>> THEN <<>> ELSE slice(pages, prefetchLimit)

\* a call of prefetchTopLevelPages(); lastOp.result lists the prefetch calls
TopLevelPriority == "low"
PrefetchTopLevelPages ==
    /\ Len(queue) < MaxQueue
    /\ BagCardinality(inflight) < MaxInflight
    /\ LET pagesToPrefetch == prefetchTopLevelPages(navigationHistory, cfg, isMobileDevice)
           P == PrefetchEach(PState, cache, isEnabled, maxConcurrent, pagesToPrefetch,
                             TopLevelPriority)
       IN  /\ queue' = P.queue
           /\ activeRequests' = P.activeRequests
           /\ inflight' = P.inflight
           /\ lastOp' = [NoOp EXCEPT !.op = "prefetchTopLevelPages",
                                     !.started = P.started,
                                     !.result = [i \in 1..Len(pagesToPrefetch) |->
                                                    [url |-> pagesToPrefetch[i],
                                                     priority |-> TopLevelPriority]]]
    /\ UNCHANGED <<cacheVars, isEnabled, maxConcurrent, run, historyVars,
                   listenerVars, trackingVars, emitterVars>>

\* a mobile device: the prefetch budgets a configuration can set for it, and
\* a list of pinned pages longer than some of them
PrefetchLimitConfigs ==
    {[DefaultConfig EXCEPT !.mobilePrefetchLimit = n, !.alwaysCache = {"/", "/index.html"}] :
        n \in 0..DefaultMobilePrefetchLimit}
WarmStartPairs == {[from |-> "/", to |-> "/a"], [from |-> "/", to |-> "/b"]}
WarmStartUrls == {"/", "/a", "/b", "/index.html"}

InitWarmStart ==
    /\ InitCacheManager
    /\ cfg \in PrefetchLimitConfigs
    /\ queue = <<>>
    /\ activeRequests = {}
    /\ inflight = EmptyBag
    /\ isEnabled = TRUE
    /\ maxConcurrent = MobileMaxConcurrent
    /\ InitIntelligentPrefetch
    /\ InitRouteListeners
    /\ InitEventEmitter
    /\ lastOp = NoOp
    /\ run = <<>>

NextWarmStart ==
    \/ PrefetchTopLevelPages
    \/ \E pair \in WarmStartPairs : TrackNavigation(pair.from, pair.to)
    \/ \E request \in InFlightRequests(WarmStartUrls) : Settle(request, "fail")

SpecWarmStart == InitWarmStart /\ [][NextWarmStart]_vars

\* ------------------------------------------------ setupNavigationTracking
\* run lists, in order, the navigations made (kind "navigation", from the
\* pathname before to the pathname after) and the calls of recordNavigation
\* (kind "recordNavigation").
NavigationPages == {"/", "/a", "/b"}

\* trackNavigation(): the closure compares window.location.pathname, read when
\* it runs, with lastUrl; on a difference it records the transition, moves
\* lastUrl and prefetches the pages predicted for the current url
trackNavigation(event) ==
    IF location' # lastUrl
    THEN LET currentUrl == location'
             r == recordNavigation(navigationHistory, lastUrl, currentUrl, now)
             pagesToPrefetch == PagesToPrefetch(r.history, currentUrl)
             P == PrefetchEach(PState, cache, isEnabled, maxConcurrent, pagesToPrefetch,
                               PredictionPriority)
         IN  /\ navigationHistory' = r.history
             /\ lastUrl' = currentUrl
             /\ run' = run \o event \o
                       <<[kind |-> "recordNavigation", from |-> lastUrl, to |-> currentUrl]>>
             /\ queue' = P.queue
             /\ activeRequests' = P.activeRequests
             /\ inflight' = P.inflight
             /\ lastOp' = [NoOp EXCEPT !.op = "trackNavigation", !.url = currentUrl,
                                       !.ret = TRUE, !.started = P.started]
    ELSE /\ run' = run \o event
         /\ lastOp' = [NoOp EXCEPT !.op = "trackNavigation", !.url = location']
         /\ UNCHANGED <<navigationHistory, lastUrl, queue, activeRequests, inflight>>

\* the wrapped history.pushState and history.replaceState: the original is
\* applied, which moves the pathname, and trackNavigation is deferred with
\* setTimeout(trackNavigation, 0)
PushState(url) ==
    /\ Len(SelectSeq(run, LAMBDA e : e.kind = "navigation")) < MaxNavigations
    /\ location' = url
    /\ pendingTracks' = pendingTracks + 1
    /\ run' = Append(run, [kind |-> "navigation", from |-> location, to |-> url])
    /\ lastOp' = [NoOp EXCEPT !.op = "pushState", !.url = url]
    /\ UNCHANGED <<cacheVars, prefetchVars, historyVars, listenerVars, lastUrl, emitterVars>>

\* a deferred trackNavigation callback runs
TrackNavigationCallback ==
    /\ pendingTracks > 0
    /\ pendingTracks' = pendingTracks - 1
    /\ UNCHANGED location
    /\ trackNavigation(<<>>)
    /\ UNCHANGED <<cacheVars, isEnabled, maxConcurrent, navigationHistoryKind, listenerVars, emitterVars>>

\* a popstate event: the browser has moved the pathname and calls the
\* listener trackNavigation at once
PopState(url) ==
    /\ Len(SelectSeq(run, LAMBDA e : e.kind = "navigation")) < MaxNavigations
    /\ location' = url
    /\ trackNavigation(<<[kind |-> "navigation", from |-> location, to |-> url]>>)
    /\ UNCHANGED <<cacheVars, isEnabled, maxConcurrent, navigationHistoryKind, listenerVars,
                   pendingTracks, emitterVars>>

NextPushState ==
    \/ \E url \in NavigationPages : PushState(url)
    \/ TrackNavigationCallback
    \/ \E url \in NavigationPages : PopState(url)
    \/ \E request \in InFlightRequests(NavigationPages) : Settle(request, "fail")
    \/ HistoryTick

SpecPushState == InitSchedule /\ [][NextPushState]_vars

\* -------------------------------------------------- AdvancedRouter actions
\* prefetchNavigationLinks(container) on a page whose links are links and
\* whose pagination links are nav: prefetchMultiple(links), then
\* prefetchTopLevelPages(), then prefetchNavigationExtraPages(container)
prefetchNavigationLinks(P, c, enabled, maxC, h, config, links, nav) ==
    IF ~enabled THEN P
    ELSE LET mobile == maxC = MobileMaxConcurrent
             limited(urls) == IF mobile \/ ~DefaultDesktopPrefetchAll
                              THEN SubSeq(urls, 1, Min(DefaultMobilePrefetchLimit, Len(urls)))
                              ELSE urls
             P1 == PrefetchEach(P, c, enabled, maxC, limited(links),
                                IF mobile THEN "low" ELSE "auto")
             P2 == PrefetchEach(P1, c, enabled, maxC, limited(allPagesList(h, config)), "low")
         IN  PrefetchEach(P2, c, enabled, maxC,
                          SubSeq(nav, 1, Min(DefaultNavigationExtraPages, Len(nav))),
                          ExtraPagePriority)

\* navigateTo(url) on an initialized router. response is what fetch gives
\* ("ok", or "fail" for a network error or a non-OK status), rendered
\* whether updatePage completes or throws. steps lists what the call did;
\* shown tells how the page came to be shown ("none": it was not)
navigateToNoFallbackMutant(c, st, config, url, clock, response, rendered) ==
    LET g == CacheGet(c, st, config, url, clock)
        w == CacheSet(g.cache, g.stats, config, url, PrefetchHtml, PrefetchHeaders,
                      clock, clock)
        none == [cache |-> g.cache, stats |-> g.stats, evictions |-> <<>>, ret |-> FALSE]
    IN  IF g.ret # Null
        THEN [set |-> none, hit |-> TRUE, steps |-> <<"get", "updatePage">>,
              shown |-> IF rendered THEN "updatePage" ELSE "baseNavigate"]
        ELSE IF response # "ok"
        THEN [set |-> none, hit |-> FALSE, steps |-> <<"get", "fetch">>, shown |-> "none"]
        ELSE [set |-> w, hit |-> FALSE, steps |-> <<"get", "fetch", "set", "updatePage">>,
              shown |-> IF rendered THEN "updatePage" ELSE "baseNavigate"]
navigateTo(c, st, config, url, clock, response, rendered) ==
    LET g == CacheGet(c, st, config, url, clock)
        w == CacheSet(g.cache, g.stats, config, url, PrefetchHtml, PrefetchHeaders,
                      clock, clock)
        none == [cache |-> g.cache, stats |-> g.stats, evictions |-> <<>>, ret |-> FALSE]
    IN  IF g.ret # Null
        THEN [set |-> none, hit |-> TRUE, steps |-> <<"get", "updatePage">>,
              shown |-> IF rendered THEN "updatePage" ELSE "baseNavigate"]
        ELSE IF response # "ok"
        THEN [set |-> none, hit |-> FALSE, steps |-> <<"get", "fetch">>,
              shown |-> "baseNavigate"]
        ELSE [set |-> w, hit |-> FALSE, steps |-> <<"get", "fetch", "set", "updatePage">>,
              shown |-> IF rendered THEN "updatePage" ELSE "baseNavigate"]

\* the pages of the site: their links and, among them, the pagination links
SitePages ==
    {[links |-> <<>>, nav |-> <<>>], [links |-> <<"/a", "/p2">>, nav |-> <<"/p2">>]}
NavigateUrls == {"/", "/a"}
NavigateConfigs == {DefaultConfig, [DefaultConfig EXCEPT !.enabled = FALSE]}
SiteUrls == {"/", "/a", "/p2", "/index.html", "/contacts.html", "/about.html"}

\* a call of navigateTo(url); saved tells whether the write of the
\* 'router_cache' item took place (localStorage may be missing or full)
NavigateTo(url, response, rendered, saved, page) ==
    /\ stats.hits + stats.misses < MaxGets
    /\ Len(queue) < MaxQueue
    /\ BagCardinality(inflight) < MaxInflight
    /\ LET r == navigateTo(cache, stats, cfg, url, now, response, rendered)
           P == IF r.shown = "updatePage"
                THEN prefetchNavigationLinks(PState, r.set.cache, isEnabled, maxConcurrent,
                                             navigationHistory, cfg, page.links, page.nav)
                ELSE PState
       IN  /\ cache' = r.set.cache
           /\ stats' = r.set.stats
           /\ storage' = IF r.set.ret /\ saved
                         THEN saveToStorage(r.set.cache, r.set.stats) ELSE storage
           /\ queue' = P.queue
           /\ activeRequests' = P.activeRequests
           /\ inflight' = P.inflight
           /\ lastOp' = [NoOp EXCEPT !.op = "navigateTo", !.url = url, !.ret = r.hit,
                                     !.wrote = r.set.ret, !.started = P.started,
                                     !.result = Append(r.steps, r.shown)]
    /\ UNCHANGED <<now, cfg, isEnabled, maxConcurrent, run, historyVars, listenerVars, trackingVars, emitterVars>>

InitNavigate ==
    /\ InitCacheManager
    /\ cfg \in NavigateConfigs
    /\ queue = <<>>
    /\ activeRequests = {}
    /\ inflight = EmptyBag
    /\ isEnabled \in BOOLEAN
    /\ maxConcurrent \in {MobileMaxConcurrent, DesktopMaxConcurrent}
    /\ InitIntelligentPrefetch
    /\ InitRouteListeners
    /\ InitEventEmitter
    /\ lastOp = NoOp
    /\ run = <<>>

NextNavigate ==
    \/ \E url \in NavigateUrls, response \in {"ok", "fail"}, rendered \in BOOLEAN,
          saved \in BOOLEAN, page \in SitePages :
          NavigateTo(url, response, rendered, saved, page)
    \/ \E request \in InFlightRequests(SiteUrls) : Settle(request, "fail")

SpecNavigate == InitNavigate /\ [][NextNavigate]_vars

\* ---------------------------------------------------- route listener actions
\* the link of the page the pointer events arrive at, getHrefForRoute(target)
Href == "/a"
IntentUrls == {"/", "/a", "/b"}

\* window.setTimeout and window.clearTimeout; withdrawn records that the
\* intent that started a timer ended while the timer was pending
SetTimeout(ts, kind) == Append(ts, [kind |-> kind, state |-> "pending", withdrawn |-> FALSE])
ClearTimeout(ts, id) ==
    IF id \in 1..Len(ts) /\ ts[id].state = "pending"
    THEN [ts EXCEPT ![id].state = "cleared"]
    ELSE ts
Withdraw(ts, kind) ==
    [i \in 1..Len(ts) |->
        IF ts[i].kind = kind /\ ts[i].state = "pending"
        THEN [ts[i] EXCEPT !.withdrawn = TRUE]
        ELSE ts[i]]

\* run lists the pointer events; the pointer is over the link from a
\* mouseenter to the next mouseleave, a finger is on it from a touchstart to
\* the next touchend or touchcancel
LastOf(pointerEvents) ==
    LET seen == SelectSeq(run, LAMBDA e : e \in pointerEvents)
    IN  IF seen = <<>> THEN "none" ELSE seen[Len(seen)]
Hovering == LastOf({"mouseenter", "mouseleave"}) = "mouseenter"
Touching == LastOf({"touchstart", "touchend"}) = "touchstart"

handleMouseEnter ==
    /\ ~Hovering
    /\ Len(run) < MaxIntentEvents
    /\ timers' = SetTimeout(timers, "hover")
    /\ prefetchTimeouts' = Len(timers) + 1
    /\ run' = Append(run, "mouseenter")
    /\ lastOp' = [NoOp EXCEPT !.op = "mouseenter"]
    /\ UNCHANGED <<cacheVars, prefetchVars, historyVars, trackingVars, emitterVars>>

handleTouchStart ==
    /\ ~Touching
    /\ Len(run) < MaxIntentEvents
    /\ timers' = SetTimeout(timers, "touch")
    /\ prefetchTimeouts' = Len(timers) + 1
    /\ run' = Append(run, "touchstart")
    /\ lastOp' = [NoOp EXCEPT !.op = "touchstart"]
    /\ UNCHANGED <<cacheVars, prefetchVars, historyVars, trackingVars, emitterVars>>

\* mouseleave: the timer the map holds is cleared and the entry deleted, then
\* cancelPrefetch(href) is called
handleMouseLeave ==
    /\ Hovering
    /\ timers' = ClearTimeout(Withdraw(timers, "hover"), prefetchTimeouts)
    /\ prefetchTimeouts' = 0
    /\ LET r == cancelPrefetch(PState, Href)
       IN  /\ queue' = r.P.queue
           /\ activeRequests' = r.P.activeRequests
           /\ inflight' = IF Href \in activeRequests
                          THEN MarkCancelled(r.P.inflight, {Href}, "cancelPrefetch")
                          ELSE r.P.inflight
           /\ lastOp' = [NoOp EXCEPT !.op = "mouseleave", !.url = Href, !.ret = r.ret,
                                     !.wasActive = (Href \in activeRequests)]
    /\ run' = Append(run, "mouseleave")
    /\ UNCHANGED <<cacheVars, isEnabled, maxConcurrent, historyVars, trackingVars, emitterVars>>

\* touchend and touchcancel
handleTouchEnd ==
    /\ Touching
    /\ timers' = ClearTimeout(Withdraw(timers, "touch"), prefetchTimeouts)
    /\ prefetchTimeouts' = 0
    /\ run' = Append(run, "touchend")
    /\ lastOp' = [NoOp EXCEPT !.op = "touchend"]
    /\ UNCHANGED <<cacheVars, prefetchVars, historyVars, trackingVars, emitterVars>>

\* the callback of a pending timer runs: prefetch(href, 'low') for a hover
\* timer, prefetch(href, 'auto') for a touch timer
TimerFires(id) ==
    /\ id \in 1..Len(timers)
    /\ timers[id].state = "pending"
    /\ Len(queue) < MaxQueue
    /\ BagCardinality(inflight) < MaxInflight
    /\ timers' = [timers EXCEPT ![id].state = "fired"]
    /\ LET priority == IF timers[id].kind = "hover" THEN "low" ELSE "auto"
           r == prefetch(PState, cache, isEnabled, maxConcurrent, Href, priority)
       IN  /\ queue' = r.P.queue
           /\ activeRequests' = r.P.activeRequests
           /\ inflight' = r.P.inflight
           /\ lastOp' = [NoOp EXCEPT !.op = "timer", !.url = Href, !.ret = r.ret,
                                     !.started = r.P.started]
    /\ UNCHANGED <<cacheVars, isEnabled, maxConcurrent, run, historyVars,
                   prefetchTimeouts, trackingVars, emitterVars>>

\* a device with a touch screen and a mouse; pages are also prefetched by
\* the navigation tracker ('auto') while the pointer events arrive
InitIntent ==
    /\ InitCacheManager
    /\ cfg = DefaultConfig
    /\ queue = <<>>
    /\ activeRequests = {}
    /\ inflight = EmptyBag
    /\ isEnabled = TRUE
    /\ maxConcurrent = MobileMaxConcurrent
    /\ InitIntelligentPrefetch
    /\ InitRouteListeners
    /\ InitEventEmitter
    /\ lastOp = NoOp
    /\ run = <<>>

NextIntent ==
    \/ handleMouseEnter
    \/ handleMouseLeave
    \/ handleTouchStart
    \/ handleTouchEnd
    \/ \E id \in 1..MaxIntentEvents : TimerFires(id)
    \/ \E url \in IntentUrls : Prefetch(url, "auto")
    \/ \E request \in InFlightRequests(IntentUrls) : Settle(request, "fail")

SpecIntent == InitIntent /\ [][NextIntent]_vars

\* ------------------------------------------------------------ EventEmitter
\* what a callback does when it is called: "plain" returns, "throws" throws,
\* "once" is the wrapper once() registers, which calls off for itself and then
\* the callback it wraps, "unsubscribes" calls the function on() returned to it
CallbackKinds == {"plain", "throws", "once", "unsubscribes"}

\* callbacks.indexOf(callback); 0 for -1
RECURSIVE IndexOfCallback(_, _, _)
IndexOfCallback(callbacks, id, i) ==
    IF i > Len(callbacks) THEN 0
    ELSE IF callbacks[i].id = id THEN i
    ELSE IndexOfCallback(callbacks, id, i + 1)

\* off(event, callback): the list afterwards
off(callbacks, id) ==
    LET index == IndexOfCallback(callbacks, id, 1)
    IN  IF index # 0 THEN Splice(callbacks, index) ELSE callbacks

\* callbacks.forEach(callback => { try { callback(...args) } catch ... }) on
\* the list the Map holds: Array.prototype.forEach reads the length once and
\* then visits the indices 0 .. length - 1 that the array still has when it
\* comes to them, while the callbacks it calls may splice the same array.
\* invoked lists the callbacks called, in order
RECURSIVE forEach(_, _, _, _)
forEach(callbacks, k, len, invoked) ==
    IF k > len THEN [callbacks |-> callbacks, invoked |-> invoked]
    ELSE IF k > Len(callbacks) THEN forEach(callbacks, k + 1, len, invoked)
    ELSE LET callback == callbacks[k]
             after == IF callback.kind \in {"once", "unsubscribes"}
                      THEN off(callbacks, callback.id)
                      ELSE callbacks
         IN  forEach(after, k + 1, len, Append(invoked, callback.id))

\* emit(event)
emit(callbacks) == forEach(callbacks, 1, Len(callbacks), <<>>)

\* on(event, callback) and once(event, callback); run lists the registrations
On(kind) ==
    /\ Len(run) < MaxListeners
    /\ events' = Append(events, [id |-> Len(run) + 1, kind |-> kind])
    /\ run' = Append(run, kind)
    /\ lastOp' = [NoOp EXCEPT !.op = IF kind = "once" THEN "once" ELSE "on"]
    /\ UNCHANGED <<cacheVars, prefetchVars, historyVars, listenerVars, trackingVars>>

\* off(event, callback) for the callback of a registration
Off(id) ==
    /\ id \in 1..Len(run)
    /\ events' = off(events, id)
    /\ lastOp' = [NoOp EXCEPT !.op = "off"]
    /\ UNCHANGED <<cacheVars, prefetchVars, run, historyVars, listenerVars, trackingVars>>

Emit ==
    /\ LET r == emit(events)
       IN  /\ events' = r.callbacks
           /\ lastOp' = [NoOp EXCEPT !.op = "emit", !.result = r.invoked]
    /\ UNCHANGED <<cacheVars, prefetchVars, run, historyVars, listenerVars, trackingVars>>

\* removeAllListeners(event)
RemoveAllListeners ==
    /\ events' = <<>>
    /\ lastOp' = [NoOp EXCEPT !.op = "removeAllListeners"]
    /\ UNCHANGED <<cacheVars, prefetchVars, run, historyVars, listenerVars, trackingVars>>

InitEmitter ==
    /\ InitCacheManager
    /\ InitPrefetchManager
    /\ cfg = DefaultConfig
    /\ lastOp = NoOp
    /\ run = <<>>

NextEmitter ==
    \/ \E kind \in CallbackKinds : On(kind)
    \/ \E id \in 1..MaxListeners : Off(id)
    \/ Emit
    \/ RemoveAllListeners

SpecEmitter == InitEmitter /\ [][NextEmitter]_vars

\* ------------------------------------------------------------------ claims
CountInQueue(q, url) == Cardinality({i \in 1..Len(q) : q[i].url = url})
AllUrls == Urls \cup PrefetchUrls \cup ScheduleUrls
MaxSizeBytes == cfg.maxSizeMB * 1024 * 1024
NonPinnedPresent == \E i \in 1..Len(cache) : ~IsPinned(cfg, cache[i].url)

\* C1: for every url at most one prefetch task is queued or active: the queue
\* never holds two requests with the same url and no url is in the queue and
\* in activeRequests at the same time.
C1_OneTaskPerUrl ==
    \A url \in AllUrls :
        CountInQueue(queue, url) + (IF url \in activeRequests THEN 1 ELSE 0) <= 1

\* C2: activeRequests.size never exceeds maxConcurrent, for any interleaving
\* of prefetch, cancel, clear and settlement steps.
C2_ActiveWithinLimit == Cardinality(activeRequests) <= maxConcurrent

\* a prefetch was accepted while every slot was busy, and its request waits
C2_Witness ==
    /\ lastOp.op = "prefetch"
    /\ lastOp.ret
    /\ Cardinality(activeRequests) = maxConcurrent
    /\ Len(queue) > 0

\* C3: after every set call either the stored size and the entry count are
\* within maxSizeMB and maxEntries, or every remaining entry is pinned.
C3_WithinBudgetOrAllPinned ==
    lastOp.op = "set" =>
        \/ SumSizes(cache) <= MaxSizeBytes /\ Len(cache) <= cfg.maxEntries
        \/ ~NonPinnedPresent

\* C4: a request never becomes active while a request of a higher priority
\* tier waits in the queue (low behind auto and high, auto behind high).
\* Stated for the states in which no url has two tasks, so that a violation
\* does not depend on duplicate requests.
C4_StrictPriority ==
    C1_OneTaskPerUrl =>
        \A k \in 1..Len(lastOp.started) :
            \A p \in lastOp.started[k].waiting :
                getPriorityValue(p) >= getPriorityValue(lastOp.started[k].priority)

\* C5: cancelPrefetch(url) on an active url returns true, and a retrieval that
\* cancelPrefetch was called on while it ran never writes into the cache.
C5_CancelActiveDiscardsResult ==
    /\ (lastOp.op = "cancelPrefetch" /\ lastOp.wasActive) => lastOp.ret
    /\ ~(lastOp.op = "settle" /\ lastOp.cancelledBy = "cancelPrefetch" /\ lastOp.wrote)

\* C6: prefetch(url, priority) on a cached url returns false, leaves the
\* queue, the active set, the running retrievals and the cache as they were
\* and starts no retrieval.
C6_CachedPrefetchIsNoOp ==
    [][(lastOp'.op = "prefetch" /\ CacheHas(cache, lastOp'.url)) =>
          /\ lastOp'.ret = FALSE
          /\ lastOp'.started = <<>>
          /\ UNCHANGED <<queue, activeRequests, inflight, cache, stats>>]_vars

\* prefetch was called on a cached url that is not active, with prefetching
\* enabled, and returned false
C6_Witness ==
    /\ lastOp.op = "prefetch"
    /\ CacheHas(cache, lastOp.url)
    /\ lastOp.url \notin activeRequests
    /\ isEnabled
    /\ ~lastOp.ret

SameValidators(entry, headers) ==
    entry.lastModified = headers.lm /\ entry.etag = headers.etag

\* C7: in every reachable state, set(url, html, headers) on a url whose stored
\* entry has the validators of headers returns false and leaves the Map (html,
\* timestamp and size of every entry) and the aggregate counters unchanged.
C7_SameValidatorsNoWrite ==
    \A url \in ValidatorUrls, html \in Htmls, headers \in HeadersSet, d \in {0, 1} :
        (CacheHas(cache, url) /\ SameValidators(MapGet(cache, url), headers)) =>
            LET r == CacheSet(cache, stats, cfg, url, html, headers, now, now + d)
            IN  r.ret = FALSE /\ r.cache = cache /\ r.stats = stats

\* a set call on an enabled, non-empty cache returned false
C7_Witness ==
    /\ lastOp.op = "set"
    /\ ~lastOp.ret
    /\ cfg.enabled
    /\ Len(cache) > 0

\* C8: in every reachable state of an enabled cache, set(url, html, headers)
\* on a url whose stored validators are not identical to those of headers
\* returns true and stores html and the new validators with the timestamp of
\* the call.
C8_ChangedValidatorsReplace ==
    \A url \in ValidatorUrls, html \in Htmls, headers \in HeadersSet :
        (cfg.enabled /\ CacheHas(cache, url)
            /\ ~SameValidators(MapGet(cache, url), headers)) =>
            LET r == CacheSet(cache, stats, cfg, url, html, headers, now, now)
            IN  /\ r.ret = TRUE
                /\ CacheHas(r.cache, url)
                /\ MapGet(r.cache, url).html = html
                /\ SameValidators(MapGet(r.cache, url), headers)
                /\ MapGet(r.cache, url).timestamp = now

\* C9: every entry checkLimits removes is non-pinned and has the smallest
\* timestamp of the non-pinned entries present at that moment; among those
\* with that timestamp it is the first in insertion (Map) order.
C9_EvictsOldestFirstInserted ==
    \A k \in 1..Len(lastOp.evictions) :
        LET c == lastOp.evictions[k].before
            i == IndexOfUrl(c, lastOp.evictions[k].url, 1)
        IN  /\ i # 0
            /\ ~IsPinned(cfg, c[i].url)
            /\ \A j \in 1..Len(c) :
                  ~IsPinned(cfg, c[j].url) =>
                      \/ c[i].timestamp < c[j].timestamp
                      \/ c[i].timestamp = c[j].timestamp /\ i <= j

\* an eviction chose between two non-pinned entries of the same timestamp
\* while a younger non-pinned entry was present
C9_Witness ==
    \E k \in 1..Len(lastOp.evictions) :
        LET c == lastOp.evictions[k].before
        IN  \E i, j, m \in 1..Len(c) :
                /\ c[i].url = lastOp.evictions[k].url
                /\ i < j
                /\ ~IsPinned(cfg, c[j].url)
                /\ c[j].timestamp = c[i].timestamp
                /\ ~IsPinned(cfg, c[m].url)
                /\ c[m].timestamp > c[i].timestamp

\* C11: a pinned entry leaves the cache only by delete(url) or clear():
\* no set (checkLimits) and no construction from the stored item
\* (cleanupExpired) removes an entry whose url is listed in alwaysCache.
C11_PinnedNeverAutoRemoved ==
    [][\A url \in Urls :
          (IsPinned(cfg, url) /\ MapHas(cache, url) /\ ~MapHas(cache', url))
              => lastOp'.op \in {"delete", "clear"}]_vars

\* a construction dropped an expired entry and kept a pinned entry that is
\* older than the TTL as well
C11_Witness ==
    /\ lastOp.op = "reload"
    /\ \E i \in 1..Len(cache) :
          IsPinned(cfg, cache[i].url) /\ now - cache[i].timestamp > TtlMs(cfg)
    /\ storage.present
    /\ \E i \in 1..Len(storage.cache) : ~MapHas(cache, storage.cache[i].url)

C13_EvictsLeastRecentlyUsed ==
    \A k \in 1..Len(lastOp.evictions) :
        LET c == lastOp.evictions[k].before
            u == lastOp.evictions[k].url
            Pos(url) == CHOOSE i \in 1..Len(run) : run[i] = url
        IN  \A j \in 1..Len(c) :
                (~IsPinned(cfg, c[j].url) /\ c[j].url # u) => Pos(u) < Pos(c[j].url)

\* C14: cancelPrefetch(url) on a url that waits in the queue returns true,
\* starts nothing and leaves no request for url in the queue, and a prefetch
\* of url called next (prefetching enabled, url not cached) returns true.
C14_CancelQueuedRemoves ==
    [][(lastOp'.op = "cancelPrefetch" /\ CountInQueue(queue, lastOp'.url) > 0) =>
          /\ lastOp'.ret
          /\ lastOp'.started = <<>>
          /\ inflight' = inflight
          /\ CountInQueue(queue', lastOp'.url) = 0
          /\ (isEnabled' /\ ~CacheHas(cache', lastOp'.url)) =>
                \A priority \in Priorities :
                    prefetch([queue |-> queue', activeRequests |-> activeRequests',
                              inflight |-> inflight', started |-> <<>>],
                             cache', isEnabled', maxConcurrent', lastOp'.url, priority).ret]_vars

\* C15: after clearQueue() the queue is empty, and a retrieval that ran at
\* the moment of a clearQueue() call never writes into the cache.
C15_ClearQueueDiscardsResults ==
    /\ lastOp.op = "clearQueue" => queue = <<>>
    /\ ~(lastOp.op = "settle" /\ lastOp.cancelledBy = "clearQueue" /\ lastOp.wrote)

\* C16: a request accepted while activeRequests holds maxConcurrent urls
\* stays in the queue; as long as activeRequests holds maxConcurrent urls
\* nothing is started, except by the settlement of an active url; and when
\* the retrieval of an active url settles while requests wait, the head of
\* the queue is started and is active at the end of that step.
C16_QueuedUntilSettlement ==
    [][/\ (lastOp'.op = "prefetch" /\ lastOp'.ret
             /\ Cardinality(activeRequests) = maxConcurrent) =>
              /\ activeRequests' = activeRequests
              /\ inflight' = inflight
              /\ CountInQueue(queue', lastOp'.url) = CountInQueue(queue, lastOp'.url) + 1
       /\ (Cardinality(activeRequests) = maxConcurrent
             /\ ~(lastOp'.op = "settle" /\ lastOp'.url \in activeRequests)) =>
              lastOp'.started = <<>>
       /\ (lastOp'.op = "settle" /\ lastOp'.url \in activeRequests /\ queue # <<>>) =>
              /\ lastOp'.started # <<>>
              /\ lastOp'.started[1].url = Head(queue).url
              /\ Head(queue).url \in activeRequests'
              /\ Len(queue') < Len(queue)]_vars

\* a retrieval settled while requests waited and every slot was busy: the
\* head of the queue was started and another request still waits
C16_Witness ==
    /\ lastOp.op = "settle"
    /\ lastOp.started # <<>>
    /\ Cardinality(activeRequests) = maxConcurrent
    /\ queue # <<>>

\* the place of the call for url in the list of calls
CallIndex(url) == CHOOSE i \in 1..Len(run) : run[i].url = url

\* C17: of two requests of the same priority the one enqueued first is
\* started first: a request that is started was enqueued before every
\* request of its priority that still waits or is started after it.
C17_FifoWithinTier ==
    \A k \in 1..Len(lastOp.started) :
        LET s == lastOp.started[k]
        IN  /\ \A i \in 1..Len(queue) :
                  queue[i].priority = s.priority =>
                      CallIndex(s.url) < CallIndex(queue[i].url)
            /\ \A m \in (k + 1)..Len(lastOp.started) :
                  lastOp.started[m].priority = s.priority =>
                      CallIndex(s.url) < CallIndex(lastOp.started[m].url)

\* a request was started while a later request of its priority waits, and a
\* request of another priority was enqueued between the two
C17_Witness ==
    \E k \in 1..Len(lastOp.started), i \in 1..Len(queue), x \in 1..Len(run) :
        /\ queue[i].priority = lastOp.started[k].priority
        /\ CallIndex(lastOp.started[k].url) < x
        /\ x < CallIndex(queue[i].url)
        /\ run[x].priority # queue[i].priority

\* the calls of recordNavigation for a pair since the last clearHistory, and
\* those of them made after the pair was last trimmed out of the history
CallsOf(pair) == {i \in 1..Len(run) : run[i].from = pair.from /\ run[i].to = pair.to}
LastTrim(pair) ==
    LET trims == {i \in 1..Len(run) : pair \in run[i].trimmed}
    IN  IF trims = {} THEN 0 ELSE CHOOSE i \in trims : \A j \in trims : j <= i
CallsSinceTrim(pair) == {i \in CallsOf(pair) : i > LastTrim(pair)}
EdgeIndex(pair) == FindPattern(navigationHistory, pair.from, pair.to, 1)

\* C18 as stated: a pair recorded N >= 1 times since the last reset has an
\* edge in the history whose count is N.
C18_CountEqualsCalls ==
    \A pair \in HistoryPairs :
        Cardinality(CallsOf(pair)) >= 1 =>
            /\ EdgeIndex(pair) # 0
            /\ navigationHistory[EdgeIndex(pair)].count = Cardinality(CallsOf(pair))

\* C18 amended: the history holds an edge for a pair exactly when the pair
\* was recorded after it was last trimmed out (or was never trimmed), and
\* the count of the edge is the number of those calls; so count is the
\* number N of all calls as long as no trim has removed the edge.
C18_CountEqualsCallsSinceTrim ==
    \A pair \in HistoryPairs :
        /\ (EdgeIndex(pair) # 0) <=> (CallsSinceTrim(pair) # {})
        /\ EdgeIndex(pair) # 0 =>
              navigationHistory[EdgeIndex(pair)].count = Cardinality(CallsSinceTrim(pair))

\* a pair was recorded twice with a call for another pair in between and
\* has kept its edge, while a call has trimmed the history
C18_Witness ==
    /\ \E pair \in HistoryPairs :
          /\ EdgeIndex(pair) # 0
          /\ LastTrim(pair) = 0
          /\ \E i, j \in CallsOf(pair), x \in 1..Len(run) :
                i < x /\ x < j /\ x \notin CallsOf(pair)
    /\ \E i \in 1..Len(run) : run[i].trimmed # {}

\* the place of the edge to a target in the list getLikelyNextPages returns
RECURSIVE ResultIndex(_, _, _)
ResultIndex(r, url, i) ==
    IF i > Len(r) THEN 0 ELSE IF r[i].url = url THEN i ELSE ResultIndex(r, url, i + 1)
EdgesFrom(currentUrl) ==
    {i \in 1..Len(navigationHistory) : navigationHistory[i].from = currentUrl}

\* C19: in every reachable state getLikelyNextPages(from) returns exactly
\* the targets of the edges starting at from, each with the score
\* count * (1 + max(0, 1 - age / window)) of its edge, age taken when the
\* edge is scored, in descending order of score; of two edges with the same
\* last-seen time the one with the larger count comes first.
C19_SortedByScore ==
    \A currentUrl \in HistoryPages, tick \in 0..Len(navigationHistory) :
        LET r == getLikelyNextPages(navigationHistory, currentUrl, now, tick)
            h == navigationHistory
        IN  /\ Len(r) = Cardinality(EdgesFrom(currentUrl))
            /\ \A i \in EdgesFrom(currentUrl) :
                  LET k == ResultIndex(r, h[i].to, 1)
                  IN  /\ k # 0
                      /\ \E clock \in {now, now + 1} :
                            r[k].probability = ScaledScore(h[i], clock)
            /\ \A i, j \in 1..Len(r) : i < j => r[i].probability >= r[j].probability
            /\ \A i, j \in EdgesFrom(currentUrl) :
                  (h[i].timestamp = h[j].timestamp /\ h[i].count > h[j].count) =>
                      ResultIndex(r, h[i].to, 1) < ResultIndex(r, h[j].to, 1)

\* getLikelyNextPages returned two targets, the first with the larger count,
\* whose edges have the same last-seen time and stand in the history in the
\* opposite order
C19_Witness ==
    /\ lastOp.op = "getLikelyNextPages"
    /\ Len(lastOp.result) >= 2
    /\ \E i, j \in EdgesFrom(lastOp.url) :
          /\ i < j
          /\ navigationHistory[i].timestamp = navigationHistory[j].timestamp
          /\ navigationHistory[i].count < navigationHistory[j].count
          /\ ResultIndex(lastOp.result, navigationHistory[j].to, 1)
                < ResultIndex(lastOp.result, navigationHistory[i].to, 1)

\* the first call of recordNavigation for a pair since the last reset
FirstCall(pair) == CHOOSE i \in CallsOf(pair) : \A j \in CallsOf(pair) : i <= j

\* C20: in every reachable state, two targets that getLikelyNextPages(from)
\* returns with equal scores stand in the order in which their edges were
\* first recorded (stated for edges that no trim has ever removed).
C20_TiesInInsertionOrder ==
    \A currentUrl \in HistoryPages :
        LET r == getLikelyNextPages(navigationHistory, currentUrl, now, 0)
            pair(k) == [from |-> currentUrl, to |-> r[k].url]
        IN  \A i, j \in 1..Len(r) :
                (/\ i < j
                 /\ r[i].probability = r[j].probability
                 /\ LastTrim(pair(i)) = 0
                 /\ LastTrim(pair(j)) = 0)
                    => FirstCall(pair(i)) < FirstCall(pair(j))

\* the urls of the transitions recorded since the last clearHistory
ObservedUrls == {run[i].from : i \in 1..Len(run)} \cup {run[i].to : i \in 1..Len(run)}

\* C21: in every reachable state the pages prefetchTopLevelPages collects
\* are the from and to urls of every transition recorded since the last
\* reset together with the alwaysCache urls.
C21_TopLevelIsEverObserved ==
    allPages(navigationHistory, cfg) = ObservedUrls \cup cfg.alwaysCache

\* an entry that is not pinned and is older than the TTL
Stale(url) ==
    /\ MapHas(cache, url)
    /\ ~IsPinned(cfg, url)
    /\ now - MapGet(cache, url).timestamp > TtlMs(cfg)

\* C22: in every reachable state has(url) is false for a stale entry, and a
\* call of get(url) that has just returned an entry did not return a stale
\* one.
C22_StaleNeverReported ==
    /\ \A url \in Urls : Stale(url) => ~CacheHas(cache, url)
    /\ (lastOp.op = "get" /\ lastOp.url # Null) => ~Stale(lastOp.url)

\* C23: when the retrieval of a request fails, the cache and its counters
\* stay as they are, and at the end of that step the url of the request is
\* not in the queue, is not active, and no retrieval of it has been started.
C23_FailedPrefetchDropped ==
    [][\A request \in InFlightRequests(AllUrls) :
          Settle(request, "fail") =>
              /\ cache' = cache
              /\ stats' = stats
              /\ CountInQueue(queue', request.url) = 0
              /\ request.url \notin activeRequests'
              /\ \A k \in 1..Len(lastOp'.started) :
                    lastOp'.started[k].url # request.url]_vars

\* C24: in every reachable state no timer has run its callback, and so
\* called prefetch, after the intent that started it was withdrawn while the
\* timer was pending.
C24_WithdrawnIntentNeverPrefetches ==
    \A id \in 1..Len(timers) : ~(timers[id].state = "fired" /\ timers[id].withdrawn)

\* C25: a mouseleave that arrives when no timer of the link has run its
\* callback (so no queued request for the link's url comes from an intent)
\* leaves every queued request for that url in the queue.
C25_LeaveKeepsForeignTasks ==
    [][(lastOp'.op = "mouseleave"
          /\ \A id \in 1..Len(timers) : timers[id].state # "fired") =>
              CountInQueue(queue', Href) = CountInQueue(queue, Href)]_vars

\* C26: every prefetch call that trackNavigation makes for a predicted page,
\* and every call prefetchNavigationExtraPages makes for a pagination
\* target, passes the priority 'low', and a request such a call has put
\* into the queue stands behind every queued 'high' or 'auto' request.
C26_PredictionsAtLowPriority ==
    (lastOp.op \in {"trackNavigation", "prefetchNavigationExtraPages"}) =>
        \A k \in 1..Len(lastOp.result) :
            /\ lastOp.result[k].priority = "low"
            /\ \A i, j \in 1..Len(queue) :
                  (queue[i].url = lastOp.result[k].url
                     /\ queue[j].priority \in {"high", "auto"}) => j < i

\* C27: a call of navigateTo(url) that missed the cache has made a direct
\* retrieval and has ended with the page shown, by the update of the router
\* or by the base navigation, whether the cache is enabled or not, whether
\* the write to localStorage took place or not, and whatever has happened
\* to the prefetches.
C27_NavigationAlwaysShowsPage ==
    (lastOp.op = "navigateTo" /\ ~lastOp.ret) =>
        /\ \E k \in 1..Len(lastOp.result) : lastOp.result[k] = "fetch"
        /\ lastOp.result[Len(lastOp.result)] \in {"updatePage", "baseNavigate"}

\* navigateTo missed a disabled cache while prefetch requests waited in the
\* queue, the retrieval failed, and the page was shown by the base navigation
C27_Witness ==
    /\ lastOp.op = "navigateTo"
    /\ ~lastOp.ret
    /\ ~cfg.enabled
    /\ lastOp.result = <<"get", "fetch", "baseNavigate">>
    /\ queue # <<>>

\* C28: a CacheManager whose configuration has maxEntries <= 0 does not
\* exist as a working cache: no call of set on it is accepted.
C28_InvalidConfigRejected ==
    cfg.maxEntries <= 0 => ~(lastOp.op = "set" /\ lastOp.ret)

\* C29: after a construction over an item that is not the text of a list
\* of edges the history is the empty list, and no call of recordNavigation,
\* getLikelyNextPages or getStats ever throws.
C29_FailedLoadIsEmptyHistory ==
    /\ (lastOp.op = "loadNavigationHistory" /\ lastOp.url # "edges") =>
          (navigationHistoryKind = "array" /\ navigationHistory = <<>>)
    /\ ~lastOp.threw

\* C30: in every reachable state stats.totalSize is the sum of the sizes of
\* the entries of the Map and stats.totalEntries is their number.
C30_CountersAgreeWithMap ==
    /\ stats.totalSize = SumSizes(cache)
    /\ stats.totalEntries = Len(cache)

\* a construction has dropped an expired entry and kept another one, the
\* counters being those of the stored item less the dropped entry
C30_Witness ==
    /\ lastOp.op = "reload"
    /\ cache # <<>>
    /\ storage.present
    /\ storage.stats.totalEntries > stats.totalEntries
    /\ storage.stats.totalSize > stats.totalSize

\* C10: after maxEntries + 1 distinct non-pinned urls were set one after the
\* other into an empty cache whose size budget is not reached, the cache
\* holds exactly the last maxEntries of them.
C10_KeepsLastInserted ==
    Len(run) = cfg.maxEntries + 1 =>
        MapKeys(cache) = {run[i] : i \in 2..Len(run)}

\* C31: a settlement, whether the retrieval succeeded, failed or was aborted,
\* removes the settled task from the active set: after it the url of the settled
\* request is in activeRequests only if the same step made another request for
\* that url active.
C31_SettledLeavesActiveSet ==
    lastOp.op = "settle" =>
        (lastOp.url \in activeRequests =>
            \E i \in 1..Len(lastOp.started) : lastOp.started[i].url = lastOp.url)

\* a retrieval failed, its url left the active set and a waiting request was
\* made active in its place
C31_Witness ==
    /\ lastOp.op = "settle"
    /\ ~lastOp.wrote
    /\ lastOp.url \notin activeRequests
    /\ lastOp.started # <<>>

\* C32: the navigation history never holds more than maxHistorySize edges,
\* whatever recordNavigation calls are made from a history within the cap.
C32_HistoryWithinCap == Len(navigationHistory) <= maxHistorySize

\* the last call of recordNavigation pushed a new edge onto a full history and
\* trimmed it back to the cap
C32_Witness ==
    /\ lastOp.op = "recordNavigation"
    /\ run # <<>>
    /\ run[Len(run)].trimmed # {}
    /\ Len(navigationHistory) = maxHistorySize

\* the last-seen time of a pair a call of recordNavigation(from, to) removed:
\* the time of its edge before the call, or the time of the call when the pair
\* removed is the one just pushed
RemovedTimestamp(h, q, clock) ==
    LET k == FindPattern(h, q.from, q.to, 1)
    IN  IF k # 0 THEN h[k].timestamp ELSE clock

\* C33: when a recordNavigation(from, to) call makes the history exceed its
\* cap, every edge the trim removes has a last-seen time no larger than that
\* of any edge kept, and the edge (from, to) is in the history when the call
\* returns.
C33_TrimsOldestKeepsRecorded ==
    [][\A pair \in HistoryPairs :
          (RecordNavigation(pair.from, pair.to) /\ run'[Len(run')].trimmed # {}) =>
              /\ \A q \in run'[Len(run')].trimmed, i \in 1..Len(navigationHistory') :
                    RemovedTimestamp(navigationHistory, q, now)
                        <= navigationHistory'[i].timestamp
              /\ FindPattern(navigationHistory', pair.from, pair.to, 1) # 0]_vars

\* C34: in every reachable state the navigation history holds at most one
\* edge for each (from, to) pair, and the count of every edge is at least 1.
C34_UniquePairsPositiveCount ==
    /\ \A i, j \in 1..Len(navigationHistory) :
          PairOf(navigationHistory[i]) = PairOf(navigationHistory[j]) => i = j
    /\ \A i \in 1..Len(navigationHistory) : navigationHistory[i].count >= 1

\* a pair recorded more than once is held as one edge with a count above 1,
\* next to the edge of another pair
C34_Witness ==
    /\ Len(navigationHistory) >= 2
    /\ \E i \in 1..Len(navigationHistory) :
          /\ navigationHistory[i].count >= 2
          /\ Cardinality(CallsOf(PairOf(navigationHistory[i]))) >= 2

\* the navigations made from one page to another, and the transitions
\* recorded, in order
Navigated ==
    SelectSeq(run, LAMBDA e : e.kind = "navigation" /\ e.from # e.to)
Recorded == SelectSeq(run, LAMBDA e : e.kind = "recordNavigation")

\* C35: once every deferred tracking callback has run, the transitions
\* recorded are exactly the navigations made, each as its own (from, to) pair
\* and in order; so two navigations P to Q and Q to R made before the callbacks
\* run are recorded as (P, Q) and (Q, R), and no (P, R) is recorded.
C35_EachNavigationRecorded ==
    pendingTracks = 0 =>
        /\ Len(Recorded) = Len(Navigated)
        /\ \A i \in 1..Len(Recorded) :
              Recorded[i].from = Navigated[i].from /\ Recorded[i].to = Navigated[i].to

C37_InFlightWithinLimit == BagCardinality(inflight) <= maxConcurrent

\* a request for the url waits in the queue
Queued(url) == \E i \in 1..Len(queue) : queue[i].url = url
QueuedCount(q, url) == Cardinality({i \in 1..Len(q) : q[i].url = url})

\* a request leaves the queue only when it is made active or when
\* cancelPrefetch or clearQueue removes it
LeavesQueueByStartOrCancel ==
    [][\A url \in LiveUrls :
          QueuedCount(queue', url) < QueuedCount(queue, url) =>
              \/ lastOp'.op \in {"cancelPrefetch", "clearQueue"}
              \/ /\ url \in activeRequests'
                 /\ \E i \in 1..Len(lastOp'.started) : lastOp'.started[i].url = url]_vars

\* no request waits for ever
NoRequestWaitsForEver == \A url \in LiveUrls : Queued(url) ~> ~Queued(url)

\* the scheduler is never at rest with a request waiting and a slot free
NeverRestsWithFreeSlot ==
    ~(queue # <<>> /\ Cardinality(activeRequests) < maxConcurrent)

\* C38: with finitely many prefetch calls and every started retrieval
\* settling, every queued request that is not cancelled or cleared becomes
\* active at some time, and in no state is a request waiting while fewer than
\* maxConcurrent tasks are active.
C38_QueuedEventuallyActive ==
    /\ LeavesQueueByStartOrCancel
    /\ NoRequestWaitsForEver
    /\ []NeverRestsWithFreeSlot

\* C39: while prefetching is disabled no retrieval is started. Every step
\* that ends with isEnabled false leaves the queue empty and starts no fetch,
\* be it setEnabled(false), the settlement of a retrieval that was in flight,
\* or a prefetch call, which returns false.
C39_DisabledStartsNothing ==
    [][~isEnabled' =>
          /\ queue' = <<>>
          /\ lastOp'.started = <<>>
          /\ BagCardinality(inflight') <= BagCardinality(inflight)
          /\ lastOp'.op = "prefetch" => ~lastOp'.ret]_vars

\* prefetching is disabled, a retrieval that was in flight has just settled
\* and another one is still running
C39_Witness ==
    /\ ~isEnabled
    /\ lastOp.op = "settle"
    /\ inflight # EmptyBag

\* the registration numbers of the callbacks of a list, in order
CallbackIds(callbacks) == [i \in 1..Len(callbacks) |-> callbacks[i].id]

\* C40: emit calls every callback that is registered when emit is called,
\* once each and in the order of registration, whatever the callbacks do
\* (remove themselves as once does, unsubscribe, throw).
C40_EmitCallsEveryCallback ==
    [][Emit => lastOp'.result = CallbackIds(events)]_vars

====
